---- MODULE Spec2Model ----
(***************************************************************************)
(* Model of the trial-sequencing and staircase handlers of                 *)
(* psychopy_source_code/data.py.                                           *)
(*                                                                         *)
(* Each handler object is one record-valued variable whose fields carry    *)
(* the attribute names of the Python class.  Python's 0-based arrays are   *)
(* functions over 0..n-1; Python lists that only grow are sequences.       *)
(* Conditions (entries of trialList) are identified by their index.        *)
(***************************************************************************)
EXTENDS Integers, Sequences, FiniteSets, TLC

VARIABLES trials, thObs, stair, sObs, multi, mObs, exp, eObs

vars == <<trials, thObs, stair, sObs, multi, mObs, exp, eObs>>

\* the variables of each handler under study
trialVars == <<trials, thObs>>
stairVars == <<stair, sObs>>
multiVars == <<multi, mObs>>
\* the ExperimentHandler the handlers may be attached to
expVars == <<exp, eObs>>

\* value of the variables of a handler that is not constructed
Absent == [cls |-> "absent"]

(***************************************************************************)
(* Bounds of the model.                                                    *)
(***************************************************************************)
MaxConds == 2
MaxWeight == 2
MaxReps == 2
MaxTotal == 6
MaxPeek == 1
MaxExtraCalls == 1
MaxN == 2
MaxStairTrials == 4
MaxExtras == 1
MaxFreeCalls == 4

\* responses given to a QuestHandler
MaxQuestTrials == 2

\* trials of a PsiHandler
MaxPsiTrials == 2

\* staircases of a MultiStairHandler and responses given to it
MaxStaircases == 2
MaxMultiTrials == 4
\* DataHandler on its own: rows of the larger dataShape, calls of add
MaxDataRows == 2
MaxWrites == 3
\* ExperimentHandler: calls of addLoop, addData and nextEntry
MaxExpCalls == 4

(***************************************************************************)
(* Generic helpers.                                                        *)
(***************************************************************************)
Range(s) == {s[i] : i \in DOMAIN s}

RECURSIVE SumSeq(_)
SumSeq(s) == IF s = <<>> THEN 0 ELSE s[1] + SumSeq(Tail(s))

Count(s, v) == Cardinality({i \in DOMAIN s : s[i] = v})

Min(a, b) == IF a < b THEN a ELSE b

Abs(n) == IF n < 0 THEN 0 - n ELSE n

\* Python sequence indexing a[i] on a 0-based array of length len given as a
\* function over 0..len-1: negative indices count from the end, anything
\* else outside the array is an IndexError.
PyIndex(i, len) ==
    IF 0 <= i /\ i < len THEN i
    ELSE IF i < 0 /\ 0 - len <= i THEN len + i
    ELSE -1

\* list.remove(x): the list without the first entry equal to x
RECURSIVE ListRemove(_, _)
ListRemove(list, x) ==
    IF list = <<>> THEN <<>>
    ELSE IF Head(list) = x THEN Tail(list)
    ELSE <<Head(list)>> \o ListRemove(Tail(list), x)

(***************************************************************************)
(* Results of a call: a value, None, or a raised exception.                *)
(***************************************************************************)
Value(v) == [kind |-> "value", val |-> v]
NoneResult == [kind |-> "None", val |-> 0]
StopIteration == [kind |-> "StopIteration", val |-> 0]
IndexError == [kind |-> "IndexError", val |-> 0]

(***************************************************************************)
(* psychopy.tools.arraytools.shuffleArray: every arrangement of the        *)
(* elements of the array is a possible outcome.                            *)
(***************************************************************************)
RECURSIVE Arrangements(_)
Arrangements(c) ==
    IF \A v \in DOMAIN c : c[v] = 0 THEN {<<>>}
    ELSE UNION { { <<v>> \o t : t \in Arrangements([c EXCEPT ![v] = @ - 1]) }
                 : v \in {w \in DOMAIN c : c[w] > 0} }

shuffleArray(s) == Arrangements([v \in Range(s) |-> Count(s, v)])

(***************************************************************************)
(* TrialHandler / TrialHandlerExt: construction.                           *)
(***************************************************************************)
Methods == {"sequential", "random", "fullRandom"}

\* thisTrial = [] (no current trial)
EmptyTrial == -1

\* value of a masked (never written) cell of a data array
Masked == -1

\* trialWeights = None is the empty sequence (a weighted list is never empty)
IsWeighted(t) == t.trialWeights # <<>>

\* length of one block: len(trialList) or sum(trialWeights)
BlockLen(t) == IF IsWeighted(t) THEN SumSeq(t.trialWeights) ELSE t.nConds

\* numpy.repeat(indices, weights): condition i repeated weights[i] times, as
\* a 1-based sequence of 0-based condition indices
RECURSIVE RepeatIndices(_, _)
RepeatIndices(weights, i) ==
    IF i > Len(weights) THEN <<>>
    ELSE [k \in 1..weights[i] |-> i - 1] \o RepeatIndices(weights, i + 1)

\* TrialHandlerExt: the rows of one repetition before shuffling
BaseIndices(nConds, weights) ==
    IF weights = <<>> THEN [k \in 1..nConds |-> k - 1]
    ELSE RepeatIndices(weights, 1)

\* Variants of _createSequence with one slip each, used to show that the
\* sequencing properties depend on how the sequence is built.
\* sequential rows filled by walking the tiled list without transposing
TrialHandler_createSequence_tiled(method, nConds, nReps) ==
    LET indices == [k \in 1..nConds |-> k - 1]
        B == Len(indices)
        flat == [k \in 1..(B * nReps) |-> indices[((k - 1) \div nReps) + 1]]
    IN  CASE method = "random" ->
               { [t \in 0..(B - 1) |-> [r \in 0..(nReps - 1) |-> f[r][t + 1]]]
                 : f \in [0..(nReps - 1) -> shuffleArray(indices)] }
          [] method = "sequential" ->
               { [t \in 0..(B - 1) |->
                    [r \in 0..(nReps - 1) |-> indices[((t * nReps + r) % B) + 1]]] }
          [] method = "fullRandom" ->
               { [t \in 0..(B - 1) |->
                    [r \in 0..(nReps - 1) |-> randomFlat[t * nReps + r + 1]]]
                 : randomFlat \in shuffleArray(flat) }

\* 'random' shuffles the whole run instead of each repetition
TrialHandler_createSequence_flatRandom(method, nConds, nReps) ==
    LET indices == [k \in 1..nConds |-> k - 1]
        B == Len(indices)
        flat == [k \in 1..(B * nReps) |-> indices[((k - 1) \div nReps) + 1]]
    IN  CASE method = "random" ->
               { [t \in 0..(B - 1) |->
                    [r \in 0..(nReps - 1) |-> randomFlat[t * nReps + r + 1]]]
                 : randomFlat \in shuffleArray(flat) }
          [] method = "sequential" ->
               { [t \in 0..(B - 1) |-> [r \in 0..(nReps - 1) |-> indices[t + 1]]] }
          [] method = "fullRandom" ->
               { [t \in 0..(B - 1) |->
                    [r \in 0..(nReps - 1) |-> randomFlat[t * nReps + r + 1]]]
                 : randomFlat \in shuffleArray(flat) }

\* 'fullRandom' reshapes with the wrong stride
TrialHandler_createSequence_badReshape(method, nConds, nReps) ==
    LET indices == [k \in 1..nConds |-> k - 1]
        B == Len(indices)
        flat == [k \in 1..(B * nReps) |-> indices[((k - 1) \div nReps) + 1]]
    IN  CASE method = "random" ->
               { [t \in 0..(B - 1) |-> [r \in 0..(nReps - 1) |-> f[r][t + 1]]]
                 : f \in [0..(nReps - 1) -> shuffleArray(indices)] }
          [] method = "sequential" ->
               { [t \in 0..(B - 1) |-> [r \in 0..(nReps - 1) |-> indices[t + 1]]] }
          [] method = "fullRandom" ->
               { [t \in 0..(B - 1) |->
                    [r \in 0..(nReps - 1) |-> randomFlat[t + r + 1]]]
                 : randomFlat \in shuffleArray(flat) }

\* TrialHandler._createSequence: all values sequenceIndices can take,
\* indexed sequenceIndices[trialN][repN]
TrialHandler_createSequence(method, nConds, nReps) ==
    LET indices == [k \in 1..nConds |-> k - 1]
        B == Len(indices)
        \* sequential.flat: row-major walk of repeat(indices, nReps, 1)
        flat == [k \in 1..(B * nReps) |-> indices[((k - 1) \div nReps) + 1]]
    IN  CASE method = "random" ->
               { [t \in 0..(B - 1) |-> [r \in 0..(nReps - 1) |-> f[r][t + 1]]]
                 : f \in [0..(nReps - 1) -> shuffleArray(indices)] }
          [] method = "sequential" ->
               { [t \in 0..(B - 1) |-> [r \in 0..(nReps - 1) |-> indices[t + 1]]] }
          [] method = "fullRandom" ->
               { [t \in 0..(B - 1) |->
                    [r \in 0..(nReps - 1) |-> randomFlat[t * nReps + r + 1]]]
                 : randomFlat \in shuffleArray(flat) }

\* TrialHandlerExt._createSequence
TrialHandlerExt_createSequence(method, nConds, weights, nReps) ==
    LET base == BaseIndices(nConds, weights)
        B == Len(base)
        flat == [k \in 1..(B * nReps) |-> base[((k - 1) \div nReps) + 1]]
    IN  CASE method = "random" ->
               { [t \in 0..(B - 1) |-> [r \in 0..(nReps - 1) |-> f[r][t + 1]]]
                 : f \in [0..(nReps - 1) -> shuffleArray(base)] }
          [] method = "sequential" ->
               { [t \in 0..(B - 1) |-> [r \in 0..(nReps - 1) |-> base[t + 1]]] }
          [] method = "fullRandom" ->
               { [t \in 0..(B - 1) |->
                    [r \in 0..(nReps - 1) |-> randomFlat[t * nReps + r + 1]]]
                 : randomFlat \in shuffleArray(flat) }

\* DataHandler.addDataType: an array of the data shape, every cell masked
\* ('ran' has its mask cleared by the constructor, so it reads 0)
addDataType(rows, cols, fill) ==
    [p \in (0..(rows - 1)) \X (0..(cols - 1)) |-> fill]

\* TrialHandler.__init__ / TrialHandlerExt.__init__
TrialHandlerInit(cls, method, nConds, weights, nReps, seq) ==
    LET B == IF weights = <<>> THEN nConds ELSE SumSeq(weights)
    IN  [ cls |-> cls,
          method |-> method,
          nConds |-> nConds,
          trialWeights |-> weights,
          nReps |-> nReps,
          nTotal |-> nReps * B,
          nRemaining |-> nReps * B,
          thisRepN |-> 0,
          thisTrialN |-> -1,
          thisN |-> -1,
          thisIndex |-> 0,
          thisTrial |-> EmptyTrial,
          finished |-> FALSE,
          sequenceIndices |-> seq,
          dataShape |-> <<B, nReps>>,
          ran |-> addDataType(B, nReps, 0),
          order |-> addDataType(B, nReps, Masked),
          needBigger |-> FALSE ]

WeightLists(nConds) == [1..nConds -> 0..MaxWeight]

Configs ==
    { c \in [cls : {"TrialHandler", "TrialHandlerExt"},
             method : Methods,
             nConds : 1..MaxConds,
             nReps : 0..MaxReps,
             weights : {<<>>} \cup UNION {WeightLists(n) : n \in 1..MaxConds}] :
        /\ c.weights # <<>> => (c.cls = "TrialHandlerExt" /\ Len(c.weights) = c.nConds)
        /\ c.nReps * (IF c.weights = <<>> THEN c.nConds ELSE SumSeq(c.weights))
              <= MaxTotal }

NoPeek == [at |-> -1, cond |-> 0]

ThObsInit ==
    [op |-> "init", arg |-> 0, result |-> NoneResult, returned |-> <<>>,
     nextCalls |-> 0, peeked |-> NoPeek]

InitTrials ==
    /\ \E c \in Configs :
         \E seq \in (IF c.cls = "TrialHandler"
                     THEN TrialHandler_createSequence(c.method, c.nConds, c.nReps)
                     ELSE TrialHandlerExt_createSequence(c.method, c.nConds,
                                                         c.weights, c.nReps)) :
            trials = TrialHandlerInit(c.cls, c.method, c.nConds, c.weights,
                                      c.nReps, seq)
    /\ thObs = ThObsInit
    /\ stair = Absent
    /\ sObs = Absent
    /\ multi = Absent
    /\ mObs = Absent
    /\ exp = Absent
    /\ eObs = Absent


(***************************************************************************)
(* ExperimentHandler.  A dict is a function over its keys.  A key is a     *)
(* pair <<owner, attr>>: <<"", "rt">> is the name 'rt', <<"trials",        *)
(* "thisN">> the name 'trials.thisN'.  A handler is known to the           *)
(* experiment by its name, "trials" or "multi"; getExp() of a handler is   *)
(* the experiment once addLoop has been called with it.                    *)
(***************************************************************************)
EmptyDict == [k \in {} |-> 0]

\* d[k] = v
DictPut(d, k, v) == [x \in DOMAIN d \cup {k} |-> IF x = k THEN v ELSE d[x]]

\* d.update(other)
DictUpdate(d, other) ==
    [x \in DOMAIN d \cup DOMAIN other |->
        IF x \in DOMAIN other THEN other[x] ELSE d[x]]

\* ExperimentHandler.__init__(extraInfo=...)
ExperimentHandlerInit(extraInfo) ==
    [ cls |-> "ExperimentHandler",
      loops |-> <<>>,
      loopsUnfinished |-> <<>>,
      extraInfo |-> extraInfo,
      thisEntry |-> EmptyDict,
      entries |-> <<>>,
      _paramNamesSoFar |-> <<>>,
      dataNames |-> <<>> ]

\* ExperimentHandler.addLoop(loopHandler)
ExperimentHandler_addLoopState(e, loop) ==
    [e EXCEPT !.loops = Append(@, loop), !.loopsUnfinished = Append(@, loop)]

\* ExperimentHandler.loopEnded(loopHandler)
ExperimentHandler_loopEnded(e, loop) ==
    IF loop \in Range(e.loopsUnfinished)
    THEN [e EXCEPT !.loopsUnfinished = ListRemove(@, loop)]
    ELSE e

\* handler.getExp() != None
HasExp(e, loop) == e.cls = "ExperimentHandler" /\ loop \in Range(e.loops)

\* the experiment after _BaseTrialHandler._terminate of the handler loop
BaseTrialHandler_terminate(e, loop) ==
    IF HasExp(e, loop) THEN ExperimentHandler_loopEnded(e, loop) ELSE e

\* ExperimentHandler.addData(name, value) with a hashable value
ExperimentHandler_addDataState(e, name, value) ==
    [e EXCEPT !.dataNames = IF name \in Range(@) THEN @ ELSE Append(@, name),
              !.thisEntry = DictPut(@, name, value)]

\* addData called with each <<name, value>> of pairs in turn
RECURSIVE ExperimentHandler_addAll(_, _)
ExperimentHandler_addAll(e, pairs) ==
    IF pairs = <<>> THEN e
    ELSE ExperimentHandler_addAll(
             ExperimentHandler_addDataState(e, pairs[1][1], pairs[1][2]),
             Tail(pairs))

\* ExperimentHandler._getLoopInfo(loop): the names with their values.  A
\* TrialHandler has thisRepN, thisTrialN, thisN, thisIndex and a thisTrial
\* that is a dict with the one parameter 'cond' (or [] with no items); a
\* MultiStairHandler has none of the attributes looked for.
ExperimentHandler_getLoopInfo(loop, h) ==
    IF h.cls \in {"TrialHandler", "TrialHandlerExt"}
    THEN LET attrs == [k \in {loop} \X {"thisRepN", "thisTrialN", "thisN",
                                        "thisIndex"} |->
                          CASE k[2] = "thisRepN" -> h.thisRepN
                            [] k[2] = "thisTrialN" -> h.thisTrialN
                            [] k[2] = "thisN" -> h.thisN
                            [] k[2] = "thisIndex" -> h.thisIndex]
         IN  IF h.thisTrial = EmptyTrial THEN attrs
             ELSE DictPut(attrs, <<"", "cond">>, h.thisTrial)
    ELSE EmptyDict

\* the entry after the loop over loopsUnfinished in nextEntry
RECURSIVE ExperimentHandler_loopInfos(_, _, _)
ExperimentHandler_loopInfos(this, loops, handlers) ==
    IF loops = <<>> THEN this
    ELSE ExperimentHandler_loopInfos(
             DictUpdate(this, ExperimentHandler_getLoopInfo(
                                  Head(loops), handlers[Head(loops)])),
             Tail(loops), handlers)

\* nextEntry that leaves thisEntry as it is
ExperimentHandler_nextEntryState_keepEntry(e, handlers) ==
    LET this == DictUpdate(
                    ExperimentHandler_loopInfos(e.thisEntry, e.loopsUnfinished,
                                                handlers),
                    e.extraInfo)
        params == <<"", "cond">>
    IN  [e EXCEPT !.entries = Append(@, this),
                  !._paramNamesSoFar =
                      IF \E l \in Range(e.loopsUnfinished) :
                            params \in DOMAIN ExperimentHandler_getLoopInfo(
                                                  l, handlers[l])
                      THEN IF params \in Range(@) THEN @ ELSE Append(@, params)
                      ELSE @]

\* ExperimentHandler.nextEntry()
ExperimentHandler_nextEntryState(e, handlers) ==
    LET this == DictUpdate(
                    ExperimentHandler_loopInfos(e.thisEntry, e.loopsUnfinished,
                                                handlers),
                    e.extraInfo)
        params == <<"", "cond">>
    IN  [e EXCEPT !.entries = Append(@, this),
                  !.thisEntry = EmptyDict,
                  !._paramNamesSoFar =
                      IF \E l \in Range(e.loopsUnfinished) :
                            params \in DOMAIN ExperimentHandler_getLoopInfo(
                                                  l, handlers[l])
                      THEN IF params \in Range(@) THEN @ ELSE Append(@, params)
                      ELSE @]

(***************************************************************************)
(* DataHandler.add as used by the trial handlers.  The arrays are          *)
(* functions over <<row, col>> cells of the data shape.                    *)
(***************************************************************************)
\* sum(self['ran'][row]): the cells of 'ran' hold 0 or 1
RowSum(ran, row) ==
    Cardinality({p \in DOMAIN ran : p[1] = row /\ ran[p] = 1})

\* numpy.sum(self.data['ran'][first:last, :])
RowsSum(ran, first, last) ==
    Cardinality({p \in DOMAIN ran : first <= p[1] /\ p[1] < last /\ ran[p] = 1})

NonePos == <<-1, -1, -1>>

\* add taking the sum of the row of 'ran' as the repetition for every key
DataHandler_add_noDecrement(t, thisType, value, position) ==
    LET repN == RowSum(t.ran, t.thisIndex)
        pos == IF position = NonePos THEN <<t.thisIndex, repN>> ELSE position
        inShape == pos[1] < t.dataShape[1] /\ pos[2] < t.dataShape[2]
        cell == <<PyIndex(pos[1], t.dataShape[1]), PyIndex(pos[2], t.dataShape[2])>>
        target == IF inShape THEN cell ELSE pos
        arr == IF thisType = "ran" THEN t.ran
               ELSE IF thisType = "order" THEN t.order
               ELSE IF DOMAIN t.resp = {}
               THEN addDataType(t.dataShape[1], t.dataShape[2], Masked)
               ELSE t.resp
        written == [p \in DOMAIN arr \cup {target} |->
                      IF p = target THEN value ELSE arr[p]]
        t1 == [t EXCEPT !.needBigger = @ \/ ~inShape]
    IN  IF thisType = "ran" THEN [t1 EXCEPT !.ran = written]
        ELSE IF thisType = "order" THEN [t1 EXCEPT !.order = written]
        ELSE [t1 EXCEPT !.resp = written]

\* DataHandler.add(thisType, value, position) for thisType in 'ran', 'order'
\* and for a key of addData, kept in the field resp; its array is created,
\* every entry masked, by the first add
DataHandler_add(t, thisType, value, position) ==
    LET repN0 == RowSum(t.ran, t.thisIndex)
        repN == IF thisType # "ran" THEN repN0 - 1 ELSE repN0
        pos == IF position = NonePos THEN <<t.thisIndex, repN>> ELSE position
        inShape == pos[1] < t.dataShape[1] /\ pos[2] < t.dataShape[2]
        \* numpy cell addressed by pos (negative indices count from the end)
        cell == <<PyIndex(pos[1], t.dataShape[1]), PyIndex(pos[2], t.dataShape[2])>>
        target == IF inShape THEN cell ELSE pos
        arr == IF thisType = "ran" THEN t.ran
               ELSE IF thisType = "order" THEN t.order
               ELSE IF DOMAIN t.resp = {}
               THEN addDataType(t.dataShape[1], t.dataShape[2], Masked)
               ELSE t.resp
        \* not inShape: extendArr enlarges the array so that pos is a cell
        written == [p \in DOMAIN arr \cup {target} |->
                      IF p = target THEN value ELSE arr[p]]
        t1 == [t EXCEPT !.needBigger = @ \/ ~inShape]
    IN  IF thisType = "ran" THEN [t1 EXCEPT !.ran = written]
        ELSE IF thisType = "order" THEN [t1 EXCEPT !.order = written]
        ELSE [t1 EXCEPT !.resp = written]

(***************************************************************************)
(* TrialHandlerExt: position of a trial in the weighted data arrays.       *)
(***************************************************************************)
\* sum(self.trialWeights[:k])
RECURSIVE WeightsBefore(_, _)
WeightsBefore(weights, k) ==
    IF k <= 0 THEN 0 ELSE weights[k] + WeightsBefore(weights, k - 1)

getNextTrialPosInDataHandler(t) ==
    LET firstRowIndex == WeightsBefore(t.trialWeights, t.thisIndex)
        lastRowIndex == WeightsBefore(t.trialWeights, t.thisIndex + 1)
        nThisTrialPresented == RowsSum(t.ran, firstRowIndex, lastRowIndex)
        tw == t.trialWeights[t.thisIndex + 1]
    IN  <<firstRowIndex + (nThisTrialPresented % tw), nThisTrialPresented \div tw>>

\* the current position computed as the next one is
getCurrentTrialPosInDataHandler_asNext(t) ==
    IF t.thisN < 0 THEN <<0, -1>>
    ELSE
    LET firstRowIndex == WeightsBefore(t.trialWeights, t.thisIndex)
        lastRowIndex == WeightsBefore(t.trialWeights, t.thisIndex + 1)
        nThisTrialPresented == RowsSum(t.ran, firstRowIndex, lastRowIndex)
        tw == t.trialWeights[t.thisIndex + 1]
    IN  <<firstRowIndex + (nThisTrialPresented % tw),
          nThisTrialPresented \div tw>>

getCurrentTrialPosInDataHandler(t) ==
    IF t.thisN < 0 THEN <<0, -1>>
    ELSE
    LET firstRowIndex == WeightsBefore(t.trialWeights, t.thisIndex)
        lastRowIndex == WeightsBefore(t.trialWeights, t.thisIndex + 1)
        nThisTrialPresented == RowsSum(t.ran, firstRowIndex, lastRowIndex)
        tw == t.trialWeights[t.thisIndex + 1]
    IN  <<firstRowIndex + ((nThisTrialPresented - 1) % tw),
          (nThisTrialPresented - 1) \div tw>>

(***************************************************************************)
(* TrialHandler.next and TrialHandlerExt.next.  Each yields the handler    *)
(* after the call and the outcome of the call.                             *)
(***************************************************************************)
TrialHandler_nextState(t) ==
    LET n1 == t.thisTrialN + 1
        wrap == n1 = t.nConds
        trialN == IF wrap THEN 0 ELSE n1
        repN == IF wrap THEN t.thisRepN + 1 ELSE t.thisRepN
        done == t.finished \/ repN >= t.nReps
        t1 == [t EXCEPT !.thisTrialN = trialN,
                        !.thisN = @ + 1,
                        !.nRemaining = @ - 1,
                        !.thisRepN = repN,
                        !.thisTrial = IF repN >= t.nReps THEN EmptyTrial ELSE @,
                        !.finished = done]
    IN  IF done THEN [t |-> t1, result |-> StopIteration]
        ELSE IF PyIndex(trialN, Cardinality(DOMAIN t.sequenceIndices)) = -1
        THEN [t |-> t1, result |-> IndexError]
        ELSE
        LET idx == t.sequenceIndices[trialN][repN]
            t2 == [t1 EXCEPT !.thisIndex = idx, !.thisTrial = idx]
            t3 == DataHandler_add(t2, "ran", 1, NonePos)
            t4 == DataHandler_add(t3, "order", t3.thisN, NonePos)
        IN  [t |-> t4, result |-> Value(t4.thisTrial)]

TrialHandlerExt_nextState_wrapAtConds(t) ==
    LET n1 == t.thisTrialN + 1
        wrap == n1 = t.nConds
        trialN == IF wrap THEN 0 ELSE n1
        repN == IF wrap THEN t.thisRepN + 1 ELSE t.thisRepN
        done == t.finished \/ repN >= t.nReps
        t1 == [t EXCEPT !.thisTrialN = trialN,
                        !.thisN = @ + 1,
                        !.nRemaining = @ - 1,
                        !.thisRepN = repN,
                        !.thisTrial = IF repN >= t.nReps THEN EmptyTrial ELSE @,
                        !.finished = done]
    IN  IF done THEN [t |-> t1, result |-> StopIteration]
        ELSE IF PyIndex(trialN, Cardinality(DOMAIN t.sequenceIndices)) = -1
        THEN [t |-> t1, result |-> IndexError]
        ELSE
        LET idx == t.sequenceIndices[trialN][repN]
            t2 == [t1 EXCEPT !.thisIndex = idx, !.thisTrial = idx]
        IN  IF t.trialWeights = <<>>
            THEN LET t3 == DataHandler_add(t2, "ran", 1, NonePos)
                     t4 == DataHandler_add(t3, "order", t3.thisN, NonePos)
                 IN  [t |-> t4, result |-> Value(t4.thisTrial)]
            ELSE LET t3 == DataHandler_add(t2, "ran", 1,
                                           getNextTrialPosInDataHandler(t2))
                     t4 == DataHandler_add(t3, "order", t3.thisN,
                                           getCurrentTrialPosInDataHandler(t3))
                 IN  [t |-> t4, result |-> Value(t4.thisTrial)]

TrialHandlerExt_nextState(t) ==
    LET n1 == t.thisTrialN + 1
        wrap == IF t.trialWeights = <<>> THEN n1 = t.nConds
                ELSE n1 = SumSeq(t.trialWeights)
        trialN == IF wrap THEN 0 ELSE n1
        repN == IF wrap THEN t.thisRepN + 1 ELSE t.thisRepN
        done == t.finished \/ repN >= t.nReps
        t1 == [t EXCEPT !.thisTrialN = trialN,
                        !.thisN = @ + 1,
                        !.nRemaining = @ - 1,
                        !.thisRepN = repN,
                        !.thisTrial = IF repN >= t.nReps THEN EmptyTrial ELSE @,
                        !.finished = done]
    IN  IF done THEN [t |-> t1, result |-> StopIteration]
        ELSE IF PyIndex(trialN, Cardinality(DOMAIN t.sequenceIndices)) = -1
        THEN [t |-> t1, result |-> IndexError]
        ELSE
        LET idx == t.sequenceIndices[trialN][repN]
            t2 == [t1 EXCEPT !.thisIndex = idx, !.thisTrial = idx]
        IN  IF t.trialWeights = <<>>
            THEN LET t3 == DataHandler_add(t2, "ran", 1, NonePos)
                     t4 == DataHandler_add(t3, "order", t3.thisN, NonePos)
                 IN  [t |-> t4, result |-> Value(t4.thisTrial)]
            ELSE LET t3 == DataHandler_add(t2, "ran", 1,
                                           getNextTrialPosInDataHandler(t2))
                     t4 == DataHandler_add(t3, "order", t3.thisN,
                                           getCurrentTrialPosInDataHandler(t3))
                 IN  [t |-> t4, result |-> Value(t4.thisTrial)]

\* the observer's record of a next() call
ObserveNext(o, r) ==
    [o EXCEPT !.op = "next", !.arg = 0, !.result = r,
              !.nextCalls = @ + 1,
              !.returned = IF r.kind = "value" THEN Append(@, r.val) ELSE @,
              \* a prediction that has been compared with its trial is dropped
              !.peeked = IF @.at <= Len(o.returned) THEN NoPeek ELSE @]

CallsLeft == thObs.nextCalls < trials.nTotal + 1 + MaxExtraCalls

TrialHandler_next ==
    /\ trials.cls = "TrialHandler"
    /\ CallsLeft
    /\ LET out == TrialHandler_nextState(trials)
       IN  /\ trials' = out.t
           /\ thObs' = ObserveNext(thObs, out.result)
           \* self._terminate()
           /\ exp' = IF out.result = StopIteration
                     THEN BaseTrialHandler_terminate(exp, "trials") ELSE exp
           /\ UNCHANGED <<eObs, stairVars, multiVars>>

TrialHandlerExt_next ==
    /\ trials.cls = "TrialHandlerExt"
    /\ CallsLeft
    /\ LET out == TrialHandlerExt_nextState(trials)
       IN  /\ trials' = out.t
           /\ thObs' = ObserveNext(thObs, out.result)
           \* self._terminate()
           /\ exp' = IF out.result = StopIteration
                     THEN BaseTrialHandler_terminate(exp, "trials") ELSE exp
           /\ UNCHANGED <<eObs, stairVars, multiVars>>

(***************************************************************************)
(* TrialHandler.getFutureTrial / getEarlierTrial (inherited unchanged by   *)
(* TrialHandlerExt).                                                       *)
(***************************************************************************)
\* numpy.array(self.sequenceIndices).transpose().flat[k]
TransposedFlat(t, k) ==
    LET B == Cardinality(DOMAIN t.sequenceIndices)
    IN  t.sequenceIndices[k % B][k \div B]

\* getFutureTrial reading the sequence without transposing it
getFutureTrial_untransposed(t, n) ==
    IF n > t.nRemaining \/ t.thisN + n < 0 THEN NoneResult
    ELSE LET len == Cardinality(DOMAIN t.sequenceIndices) * t.nReps
             k == PyIndex(t.thisN + n, len)
         IN  IF k = -1 THEN IndexError
             ELSE Value(t.sequenceIndices[k \div t.nReps][k % t.nReps])

\* getFutureTrial without the check against reaching before the first trial
getFutureTrial_noLowerCheck(t, n) ==
    IF n > t.nRemaining THEN NoneResult
    ELSE LET len == Cardinality(DOMAIN t.sequenceIndices) * t.nReps
             k == PyIndex(t.thisN + n, len)
         IN  IF k = -1 THEN IndexError ELSE Value(TransposedFlat(t, k))

getFutureTrial(t, n) ==
    IF n > t.nRemaining \/ t.thisN + n < 0 THEN NoneResult
    ELSE LET len == Cardinality(DOMAIN t.sequenceIndices) * t.nReps
             k == PyIndex(t.thisN + n, len)
         IN  IF k = -1 THEN IndexError ELSE Value(TransposedFlat(t, k))

getEarlierTrial(t, n) == getFutureTrial(t, 0 - Abs(n))

PeekArgs == (0 - MaxPeek)..MaxPeek

TrialHandler_getFutureTrial ==
    \E n \in PeekArgs :
       LET r == getFutureTrial(trials, n)
       IN  /\ thObs' = [thObs EXCEPT !.op = "getFutureTrial", !.arg = n,
                           !.result = r,
                           !.peeked = IF n >= 1 /\ r.kind = "value"
                                      THEN [at |-> Len(thObs.returned) + n,
                                            cond |-> r.val]
                                      ELSE @]
           /\ UNCHANGED <<trials, stairVars, multiVars, expVars>>

TrialHandler_getEarlierTrial ==
    \E n \in PeekArgs :
       /\ thObs' = [thObs EXCEPT !.op = "getEarlierTrial", !.arg = n,
                       !.result = getEarlierTrial(trials, n)]
       /\ UNCHANGED <<trials, stairVars, multiVars, expVars>>

\* TrialHandler.addData(thisType, value) for a key other than 'ran' and
\* 'order', with no experiment attached
TrialHandler_addDataState(t, thisType, value) ==
    DataHandler_add(t, thisType, value, NonePos)

NextTrials ==
    \/ TrialHandler_next
    \/ TrialHandlerExt_next
    \/ TrialHandler_getFutureTrial
    \/ TrialHandler_getEarlierTrial

SpecTrials == InitTrials /\ [][NextTrials]_vars


(***************************************************************************)
(* A TrialHandler whose trials are given data: addData is called between   *)
(* the calls of next(), after the first trial has been returned.           *)
(***************************************************************************)
InitTrialsData ==
    /\ \E c \in Configs :
         /\ c.cls = "TrialHandler"
         /\ \E seq \in TrialHandler_createSequence(c.method, c.nConds, c.nReps) :
              trials = TrialHandlerInit(c.cls, c.method, c.nConds, c.weights,
                                        c.nReps, seq)
                         @@ [resp |-> [p \in {} |-> Masked]]
    /\ thObs = ThObsInit
    /\ stair = Absent
    /\ sObs = Absent
    /\ multi = Absent
    /\ mObs = Absent
    /\ exp = Absent
    /\ eObs = Absent

TrialHandler_addData ==
    /\ trials.cls = "TrialHandler"
    /\ thObs.returned # <<>>
    /\ \E value \in {1} :
          /\ trials' = TrialHandler_addDataState(trials, "resp", value)
          /\ thObs' = [thObs EXCEPT !.op = "addData", !.arg = value,
                                    !.result = NoneResult]
          /\ exp' = IF HasExp(exp, "trials")
                    THEN ExperimentHandler_addDataState(exp, <<"", "resp">>, value)
                    ELSE exp
    /\ UNCHANGED <<eObs, stairVars, multiVars>>

NextTrialsData == TrialHandler_next \/ TrialHandler_addData

SpecTrialsData == InitTrialsData /\ [][NextTrialsData]_vars

(***************************************************************************)
(* A weighted TrialHandlerExt whose trials are given data.                 *)
(***************************************************************************)
\* TrialHandlerExt.addData(thisType, value) for a key other than 'ran' and
\* 'order'
TrialHandlerExt_addDataState(t, thisType, value) ==
    LET pos == IF t.trialWeights = <<>> THEN NonePos
               ELSE getCurrentTrialPosInDataHandler(t)
    IN  DataHandler_add(t, thisType, value, pos)

InitTrialsExtData ==
    /\ \E c \in Configs :
         /\ c.cls = "TrialHandlerExt"
         /\ c.weights # <<>>
         /\ \E seq \in TrialHandlerExt_createSequence(c.method, c.nConds,
                                                      c.weights, c.nReps) :
              trials = TrialHandlerInit(c.cls, c.method, c.nConds, c.weights,
                                        c.nReps, seq)
                         @@ [resp |-> [p \in {} |-> Masked]]
    /\ thObs = ThObsInit
    /\ stair = Absent
    /\ sObs = Absent
    /\ multi = Absent
    /\ mObs = Absent
    /\ exp = Absent
    /\ eObs = Absent

TrialHandlerExt_addData ==
    /\ trials.cls = "TrialHandlerExt"
    /\ thObs.returned # <<>>
    /\ \E value \in {1} :
          /\ trials' = TrialHandlerExt_addDataState(trials, "resp", value)
          /\ thObs' = [thObs EXCEPT !.op = "addData", !.arg = value,
                                    !.result = NoneResult]
          /\ exp' = IF HasExp(exp, "trials")
                    THEN ExperimentHandler_addDataState(exp, <<"", "resp">>, value)
                    ELSE exp
    /\ UNCHANGED <<eObs, stairVars, multiVars>>

NextTrialsExtData == TrialHandlerExt_next \/ TrialHandlerExt_addData

SpecTrialsExtData == InitTrialsExtData /\ [][NextTrialsExtData]_vars

(***************************************************************************)
(* Properties of TrialHandler / TrialHandlerExt.                           *)
(***************************************************************************)
\* weight of condition i (0-based); 1 when the handler is unweighted
WeightOf(i) == IF IsWeighted(trials) THEN trials.trialWeights[i + 1] ELSE 1

Conds == 0..(trials.nConds - 1)

RECURSIVE SumWeights(_)
SumWeights(n) == IF n <= 0 THEN 0 ELSE WeightOf(n - 1) + SumWeights(n - 1)

\* R * sum(w)
ExpectedTotal == trials.nReps * SumWeights(trials.nConds)

\* number of times condition i occurs in returned[from..to]
Occurrences(i, from, to) ==
    Cardinality({k \in from..to : k \in DOMAIN thObs.returned
                                  /\ thObs.returned[k] = i})

\* C1: with N conditions of weights w and nReps = R, each of the first
\* R * sum(w) calls to next() returns a condition, and call R * sum(w) + 1 is
\* the first one that raises StopIteration and sets finished.
C1_ExactlyRTimesSumWeights ==
    /\ thObs.op = "next" =>
          /\ thObs.nextCalls <= ExpectedTotal => thObs.result.kind = "value"
          /\ thObs.nextCalls = ExpectedTotal + 1 =>
                (thObs.result = StopIteration /\ trials.finished)
    /\ trials.finished => thObs.nextCalls > ExpectedTotal

\* position j (0-based) of the weight-expanded list: condition i occupies
\* the weight[i] consecutive positions after those of the conditions before it
ExpandedCond(j) ==
    CHOOSE i \in Conds : SumWeights(i) <= j /\ j < SumWeights(i + 1)

\* C2: in 'sequential' mode the k-th call to next() (k from 0) returns the
\* condition at position k mod B of the weight-expanded list, so the same
\* block pattern is returned in every repetition.
C2_SequentialOrder ==
    trials.method = "sequential" =>
        \A k \in DOMAIN thObs.returned :
            thObs.returned[k] = ExpandedCond((k - 1) % SumWeights(trials.nConds))

C2_Witness ==
    /\ trials.method = "sequential"
    /\ trials.trialWeights = <<2, 1>>
    /\ trials.nReps = 2
    /\ thObs.returned = <<0, 0, 1, 0, 0, 1>>

\* C3: in 'random' mode the calls of every repetition r return a permutation
\* of the weight-expanded list: condition i is returned exactly weight[i]
\* times inside each block, hence r * weight[i] times before block r starts.
C3_RandomBlocksArePermutations ==
    trials.method = "random" =>
        LET B == SumWeights(trials.nConds)
            n == Len(thObs.returned)
        IN  \A r \in 0..(trials.nReps - 1) : \A i \in Conds :
               /\ n >= (r + 1) * B =>
                     Occurrences(i, r * B + 1, (r + 1) * B) = WeightOf(i)
               /\ n >= r * B => Occurrences(i, 1, r * B) = r * WeightOf(i)
               /\ Occurrences(i, r * B + 1, (r + 1) * B) <= WeightOf(i)

C3_Witness ==
    /\ trials.method = "random"
    /\ trials.trialWeights = <<2, 1>>
    /\ trials.nReps = 2
    /\ thObs.returned = <<0, 1, 0, 1, 0, 0>>

\* C4: under every method, over a complete run each condition i is returned
\* by next() exactly weight[i] * nReps times, and never more often on the way.
C4_EachConditionWeightTimesReps ==
    \A i \in Conds :
        /\ Occurrences(i, 1, Len(thObs.returned)) <= WeightOf(i) * trials.nReps
        /\ trials.finished =>
              Occurrences(i, 1, Len(thObs.returned)) = WeightOf(i) * trials.nReps

C4_Witness ==
    /\ trials.method = "fullRandom"
    /\ trials.trialWeights = <<1, 2>>
    /\ trials.nReps = 2
    /\ trials.finished
    /\ thObs.returned = <<1, 1, 1, 0, 0, 1>>

\* the cursor of the handler
Cursor(t) ==
    <<t.thisN, t.thisTrialN, t.thisRepN, t.nRemaining, t.thisIndex,
      t.thisTrial, t.finished>>

\* C5 (state part): getFutureTrial(n) with 1 <= n <= nRemaining returns the
\* condition the n-th subsequent next() returns; getEarlierTrial(n) returns
\* the condition next() returned n calls before the current trial.
C5_PeeksAgreeWithNext ==
    /\ thObs.peeked.at <= trials.nTotal
    /\ (thObs.peeked.at >= 1 /\ thObs.peeked.at <= Len(thObs.returned)) =>
          thObs.returned[thObs.peeked.at] = thObs.peeked.cond
    /\ (thObs.op = "getFutureTrial" /\ 1 <= thObs.arg
           /\ thObs.arg <= trials.nRemaining) =>
          (thObs.result.kind = "value" /\ thObs.peeked.cond = thObs.result.val
             /\ thObs.peeked.at = Len(thObs.returned) + thObs.arg)
    /\ (thObs.op = "getEarlierTrial" /\ ~trials.finished
           /\ Len(thObs.returned) >= 1) =>
          IF Abs(thObs.arg) < Len(thObs.returned)
          THEN thObs.result =
                  Value(thObs.returned[Len(thObs.returned) - Abs(thObs.arg)])
          ELSE thObs.result = NoneResult

\* C5: getFutureTrial and getEarlierTrial never change the cursor, and what
\* they return agrees with what next() returns.
C5_PeekFrameAndAgreement ==
    /\ []C5_PeeksAgreeWithNext
    /\ [][thObs'.op \in {"getFutureTrial", "getEarlierTrial"} =>
             Cursor(trials') = Cursor(trials)]_vars

C5_Witness ==
    /\ thObs.peeked.at = 4
    /\ Len(thObs.returned) = 4
    /\ trials.method = "fullRandom"
    /\ thObs.op = "getEarlierTrial"
    /\ thObs.arg = 1
    /\ thObs.result.kind = "value"

\* C6: in every state getFutureTrial(n) returns None whenever n exceeds
\* nRemaining or thisN + n lies before the first trial, and otherwise reads
\* an index inside the sequence (0 <= thisN + n < nTotal); it never wraps
\* around to a negative index and never raises.
C6_FutureTrialInBounds ==
    thObs.op = "getFutureTrial" =>
        LET n == thObs.arg
        IN  IF n > trials.nRemaining \/ trials.thisN + n < 0
            THEN thObs.result = NoneResult
            ELSE /\ thObs.result.kind = "value"
                 /\ 0 <= trials.thisN + n
                 /\ trials.thisN + n < trials.nTotal
                 /\ thObs.result.val = TransposedFlat(trials, trials.thisN + n)

C6_Witness ==
    /\ thObs.op = "getFutureTrial"
    /\ trials.finished
    /\ thObs.nextCalls = trials.nTotal + 1
    /\ trials.nTotal = 6
    /\ thObs.arg = -1
    /\ thObs.result.kind = "value"


(***************************************************************************)
(* StairHandler.                                                           *)
(*                                                                         *)
(* Intensities are integers.  For stepType 'lin' the integer is the        *)
(* intensity itself.  For 'log' and 'db' the steps are multiplications by  *)
(* 10**step and 10**(step/20); the integer is then 20*log10 of the         *)
(* (positive) intensity, on which a 'db' step adds step and a 'log' step   *)
(* adds 20*step.  minVal, maxVal and startVal are in the same unit.        *)
(***************************************************************************)
\* None; Python 2 orders None below every number, so that x >= None and
\* x > None are true and x < None is false
PyNone == -1000

\* the divisor of a 'db' step: 10.0**(stepSizeCurrent / 20.0)
DbPerDecade == 20

StepTypes == {"lin", "log", "db"}

StairConfigs ==
    [ startVal : {0},
      nUp : 1..MaxN,
      nDown : 1..MaxN,
      stepSizes : {<<1>>, <<2, 1>>, <<3, 2, 1>>},
      nReversals : {PyNone, 1, 3},
      nTrials : {0, 3},
      minVal : {PyNone, -1},
      maxVal : {PyNone, 1},
      stepType : StepTypes ]

\* the minimum number of reversals kept as it was given
minReversals_asGiven(nReversals, stepSizes) == nReversals

\* StairHandler.__init__: the minimum number of reversals is at least the
\* number of step sizes
minReversals(nReversals, stepSizes) ==
    IF nReversals # PyNone /\ Len(stepSizes) > nReversals
    THEN Len(stepSizes) ELSE nReversals

\* StairHandler.__init__
StairHandlerInit(c) ==
    [ cls |-> "StairHandler",
      startVal |-> c.startVal,
      nUp |-> c.nUp,
      nDown |-> c.nDown,
      stepType |-> c.stepType,
      stepSizes |-> c.stepSizes,
      _variableStep |-> Len(c.stepSizes) > 1,
      stepSizeCurrent |-> c.stepSizes[1],
      nReversals |-> minReversals(c.nReversals, c.stepSizes),
      nTrials |-> c.nTrials,
      finished |-> FALSE,
      thisTrialN |-> -1,
      otherData |-> <<>>,
      data |-> <<>>,
      intensities |-> <<>>,
      reversalPoints |-> <<>>,
      reversalIntensities |-> <<>>,
      currentDirection |-> "start",
      correctCounter |-> 0,
      _nextIntensity |-> c.startVal,
      minVal |-> c.minVal,
      maxVal |-> c.maxVal,
      initialRule |-> 0 ]

Last(q) == q[Len(q)]

\* _intensityInc without the check against maxVal
_intensityInc_noLimit(s) ==
    LET n1 == IF s.stepType = "db" THEN s._nextIntensity + s.stepSizeCurrent
              ELSE IF s.stepType = "log"
              THEN s._nextIntensity + DbPerDecade * s.stepSizeCurrent
              ELSE IF s.stepType = "lin" THEN s._nextIntensity + s.stepSizeCurrent
              ELSE s._nextIntensity
    IN  [s EXCEPT !._nextIntensity = n1, !.correctCounter = 0]

_intensityInc(s) ==
    LET n1 == IF s.stepType = "db" THEN s._nextIntensity + s.stepSizeCurrent
              ELSE IF s.stepType = "log"
              THEN s._nextIntensity + DbPerDecade * s.stepSizeCurrent
              ELSE IF s.stepType = "lin" THEN s._nextIntensity + s.stepSizeCurrent
              ELSE s._nextIntensity
        n2 == IF n1 > s.maxVal /\ s.maxVal # PyNone THEN s.maxVal ELSE n1
    IN  [s EXCEPT !._nextIntensity = n2, !.correctCounter = 0]

\* _intensityDec that leaves the run counter as it is
_intensityDec_keepCounter(s) ==
    LET n1 == IF s.stepType = "db" THEN s._nextIntensity - s.stepSizeCurrent
              ELSE s._nextIntensity
        n2 == IF s.stepType = "log" THEN n1 - DbPerDecade * s.stepSizeCurrent
              ELSE IF s.stepType = "lin" THEN n1 - s.stepSizeCurrent
              ELSE n1
        n3 == IF n2 < s.minVal /\ s.minVal # PyNone THEN s.minVal ELSE n2
    IN  [s EXCEPT !._nextIntensity = n3]

_intensityDec(s) ==
    LET n1 == IF s.stepType = "db" THEN s._nextIntensity - s.stepSizeCurrent
              ELSE s._nextIntensity
        n2 == IF s.stepType = "log" THEN n1 - DbPerDecade * s.stepSizeCurrent
              ELSE IF s.stepType = "lin" THEN n1 - s.stepSizeCurrent
              ELSE n1
        n3 == IF n2 < s.minVal /\ s.minVal # PyNone THEN s.minVal ELSE n2
    IN  [s EXCEPT !._nextIntensity = n3, !.correctCounter = 0]

\* the direction step with the move away from 'start' counted as a reversal
stairDirection_startIsReversal(s) ==
    IF Len(s.reversalIntensities) < 1
    THEN IF Last(s.data) = 1
         THEN [reversal |-> s.currentDirection # "down", dir |-> "down"]
         ELSE [reversal |-> s.currentDirection # "up", dir |-> "up"]
    ELSE IF s.correctCounter >= s.nDown
    THEN [reversal |-> s.currentDirection # "down", dir |-> "down"]
    ELSE IF s.correctCounter <= 0 - s.nUp
    THEN [reversal |-> s.currentDirection # "up", dir |-> "up"]
    ELSE [reversal |-> FALSE, dir |-> s.currentDirection]

\* calculateNextIntensity, first part: the new direction and whether this
\* response is a reversal
stairDirection(s) ==
    IF Len(s.reversalIntensities) < 1
    THEN IF Last(s.data) = 1
         THEN [reversal |-> s.currentDirection = "up", dir |-> "down"]
         ELSE [reversal |-> s.currentDirection = "down", dir |-> "up"]
    ELSE IF s.correctCounter >= s.nDown
    THEN [reversal |-> s.currentDirection # "down", dir |-> "down"]
    ELSE IF s.correctCounter <= 0 - s.nUp
    THEN [reversal |-> s.currentDirection # "up", dir |-> "up"]
    ELSE [reversal |-> FALSE, dir |-> s.currentDirection]

\* the end test with 'or' in place of 'and'
stairDone_either(s) ==
    \/ Len(s.reversalIntensities) >= s.nReversals
    \/ Len(s.intensities) >= s.nTrials

\* calculateNextIntensity: "test if we're done"
stairDone(s) ==
    /\ Len(s.reversalIntensities) >= s.nReversals
    /\ Len(s.intensities) >= s.nTrials

\* the new step size chosen one reversal late
stairNewStepSize_late(s, reversal) ==
    IF reversal /\ s._variableStep
    THEN IF Len(s.reversalIntensities) > Len(s.stepSizes)
         THEN [s EXCEPT !.stepSizeCurrent = Last(s.stepSizes)]
         ELSE [s EXCEPT !.stepSizeCurrent = s.stepSizes[Len(s.reversalIntensities)]]
    ELSE s

\* calculateNextIntensity: "new step size if necessary"
stairNewStepSize(s, reversal) ==
    IF reversal /\ s._variableStep
    THEN IF Len(s.reversalIntensities) >= Len(s.stepSizes)
         THEN [s EXCEPT !.stepSizeCurrent = Last(s.stepSizes)]
         ELSE [s EXCEPT !.stepSizeCurrent = s.stepSizes[Len(s.reversalIntensities) + 1]]
    ELSE s

\* applying the step by the configured nUp and nDown from the first trial on
stairApplyStep_configuredOnly(s) ==
    IF s.correctCounter >= s.nDown THEN _intensityDec([s EXCEPT !.initialRule = 0])
    ELSE IF s.correctCounter <= 0 - s.nUp
    THEN _intensityInc([s EXCEPT !.initialRule = 0])
    ELSE [s EXCEPT !.initialRule = 0]

\* calculateNextIntensity: "apply new step size"
stairApplyStep(s) ==
    IF Len(s.reversalIntensities) < 1 \/ s.initialRule = 1
    THEN IF Last(s.data) = 1
         THEN _intensityDec([s EXCEPT !.initialRule = 0])
         ELSE _intensityInc([s EXCEPT !.initialRule = 0])
    ELSE IF s.correctCounter >= s.nDown THEN _intensityDec(s)
    ELSE IF s.correctCounter <= 0 - s.nUp THEN _intensityInc(s)
    ELSE s

\* calculateNextIntensity that records the recommended intensity of the
\* trial as the reversal intensity
calculateNextIntensity_recommended(s) ==
    LET d == stairDirection(s)
        s1 == [s EXCEPT !.currentDirection = d.dir]
        s2 == IF d.reversal
              THEN [s1 EXCEPT !.reversalPoints = Append(@, s.thisTrialN),
                              !.initialRule =
                                  IF Len(s.reversalIntensities) < 1 THEN 1 ELSE @]
              ELSE s1
    IN  IF d.reversal /\ s.intensities = <<>>
        THEN [s |-> s2, result |-> IndexError]
        ELSE LET s3 == IF d.reversal
                       THEN [s2 EXCEPT !.reversalIntensities =
                                           Append(@, s._nextIntensity)]
                       ELSE s2
                 s4 == [s3 EXCEPT !.finished = @ \/ stairDone(s3)]
                 s5 == stairNewStepSize(s4, d.reversal)
             IN  [s |-> stairApplyStep(s5), result |-> NoneResult]

\* StairHandler.calculateNextIntensity: the handler after the call and
\* None, or the exception that stopped the call half way
calculateNextIntensity(s) ==
    LET d == stairDirection(s)
        s1 == [s EXCEPT !.currentDirection = d.dir]
        s2 == IF d.reversal
              THEN [s1 EXCEPT !.reversalPoints = Append(@, s.thisTrialN),
                              !.initialRule =
                                  IF Len(s.reversalIntensities) < 1 THEN 1 ELSE @]
              ELSE s1
    IN  IF d.reversal /\ s.intensities = <<>>
        THEN [s |-> s2, result |-> IndexError]
        ELSE LET s3 == IF d.reversal
                       THEN [s2 EXCEPT !.reversalIntensities =
                                           Append(@, Last(s.intensities))]
                       ELSE s2
                 s4 == [s3 EXCEPT !.finished = @ \/ stairDone(s3)]
                 s5 == stairNewStepSize(s4, d.reversal)
             IN  [s |-> stairApplyStep(s5), result |-> NoneResult]

\* addResponse that restarts the run counter on every response
addResponse_noRuns(s, result, intensity) ==
    LET s1 == [s EXCEPT !.data = Append(@, result)]
    IN  IF intensity # PyNone /\ s.intensities = <<>>
        THEN [s |-> s1, result |-> IndexError]
        ELSE
        LET s2 == IF intensity # PyNone
                  THEN [s1 EXCEPT !.intensities[Len(s.intensities)] = intensity]
                  ELSE s1
            s3 == IF result = 1
                  THEN [s2 EXCEPT !.correctCounter = 1]
                  ELSE [s2 EXCEPT !.correctCounter = -1]
        IN  calculateNextIntensity(s3)

\* StairHandler.addResponse(result, intensity)
addResponse(s, result, intensity) ==
    LET s1 == [s EXCEPT !.data = Append(@, result)]
    IN  IF intensity # PyNone /\ s.intensities = <<>>
        THEN [s |-> s1, result |-> IndexError]
        ELSE
        LET s2 == IF intensity # PyNone
                  THEN [s1 EXCEPT !.intensities[Len(s.intensities)] = intensity]
                  ELSE s1
            onRun == Len(s2.data) > 1 /\ s2.data[Len(s2.data) - 1] = result
            s3 == IF result = 1
                  THEN [s2 EXCEPT !.correctCounter = IF onRun THEN @ + 1 ELSE 1]
                  ELSE [s2 EXCEPT !.correctCounter = IF onRun THEN @ - 1 ELSE -1]
        IN  calculateNextIntensity(s3)

\* the None entries and values of otherData[dataName]
NoneEntry == 0
OtherValue == 1

\* StairHandler.addOtherData(dataName, value) for one dataName
addOtherData(s, value) ==
    LET created == IF s.otherData = <<>>
                   THEN IF s.thisTrialN > 0
                        THEN [k \in 1..(s.thisTrialN - 1) |-> NoneEntry]
                        ELSE <<>>
                   ELSE s.otherData
    IN  [s EXCEPT !.otherData = Append(created, value)]

\* StairHandler.next
RECURSIVE PadOtherData(_, _)
PadOtherData(list, n) ==
    IF Len(list) < n THEN PadOtherData(Append(list, NoneEntry), n) ELSE list

\* next() that moves the trial pointer before it looks at finished
StairHandler_nextState_countsAfterEnd(s) ==
    IF s.finished = FALSE
    THEN LET s1 == IF s.otherData = <<>> THEN s
                   ELSE [s EXCEPT !.otherData = PadOtherData(@, s.thisTrialN)]
         IN  [s |-> [s1 EXCEPT !.thisTrialN = @ + 1,
                               !.intensities = Append(@, s._nextIntensity)],
              result |-> Value(s._nextIntensity)]
    ELSE [s |-> [s EXCEPT !.thisTrialN = @ + 1], result |-> StopIteration]

StairHandler_nextState(s) ==
    IF s.finished = FALSE
    THEN LET s1 == IF s.otherData = <<>> THEN s
                   ELSE [s EXCEPT !.otherData = PadOtherData(@, s.thisTrialN)]
         IN  [s |-> [s1 EXCEPT !.thisTrialN = @ + 1,
                               !.intensities = Append(@, s._nextIntensity)],
              result |-> Value(s._nextIntensity)]
    ELSE [s |-> s, result |-> StopIteration]

(***************************************************************************)
(* The calls on a StairHandler and their record.                           *)
(***************************************************************************)
\* the intensity a caller passes to addResponse in place of the recommended one
Override == 7

SObsInit ==
    [op |-> "init", result |-> NoneResult, resp |-> 0, intensity |-> PyNone,
     awaiting |-> FALSE, sinceChange |-> <<>>, calls |-> 0, stops |-> 0,
     nOther |-> 0, nOverride |-> 0, nReversalsArg |-> PyNone, steps |-> <<>>]

InitStair ==
    /\ \E c \in StairConfigs :
          /\ stair = StairHandlerInit(c)
          /\ sObs = [SObsInit EXCEPT !.nReversalsArg = c.nReversals]
    /\ trials = Absent
    /\ thObs = Absent
    /\ multi = Absent
    /\ mObs = Absent
    /\ exp = Absent
    /\ eObs = Absent

StairHandler_next ==
    LET out == StairHandler_nextState(stair)
    IN  /\ stair' = out.s
        /\ sObs' = [sObs EXCEPT !.op = "next", !.result = out.result,
                       !.awaiting = (out.result.kind = "value"),
                       !.calls = @ + 1,
                       !.stops = IF out.result = StopIteration THEN @ + 1 ELSE @,
                       !.steps = IF out.result.kind = "value"
                                 THEN Append(@, stair.stepSizeCurrent) ELSE @]
        /\ UNCHANGED <<trialVars, multiVars, expVars>>

StairHandler_addResponse(name, result, intensity) ==
    LET out == addResponse(stair, result, intensity)
        resps == Append(sObs.sinceChange, result)
    IN  /\ stair' = out.s
        /\ sObs' = [sObs EXCEPT !.op = name, !.result = out.result,
                       !.resp = result, !.intensity = intensity,
                       !.awaiting = FALSE,
                       !.calls = @ + 1,
                       !.nOverride = IF intensity # PyNone THEN @ + 1 ELSE @,
                       !.sinceChange =
                           IF out.s._nextIntensity # stair._nextIntensity
                           THEN <<>> ELSE resps]
        /\ UNCHANGED <<trialVars, multiVars, expVars>>

StairHandler_addOtherData ==
    /\ stair' = addOtherData(stair, OtherValue)
    /\ sObs' = [sObs EXCEPT !.op = "addOtherData", !.result = NoneResult,
                   !.calls = @ + 1, !.nOther = @ + 1]
    /\ UNCHANGED <<trialVars, multiVars, expVars>>

IntensityArgs == {PyNone, Override}

\* A run in which every next() is answered by one addResponse.
TrialNext ==
    /\ ~sObs.awaiting
    /\ Len(stair.data) < MaxStairTrials \/ stair.finished
    /\ sObs.stops < MaxExtraCalls
    /\ StairHandler_next

TrialResponse ==
    /\ sObs.awaiting
    /\ \E result \in {0, 1} : \E intensity \in IntensityArgs :
          /\ intensity # PyNone => sObs.nOverride + sObs.nOther < MaxExtras
          /\ StairHandler_addResponse("addResponse", result, intensity)

TrialOtherData ==
    /\ sObs.awaiting
    /\ sObs.nOverride + sObs.nOther < MaxExtras
    /\ StairHandler_addOtherData

NextStair == TrialNext \/ TrialResponse \/ TrialOtherData

SpecStair == InitStair /\ [][NextStair]_vars

\* Calls in any order.
FreeNext ==
    /\ sObs.calls < MaxFreeCalls
    /\ StairHandler_next

FreeResponse ==
    /\ sObs.calls < MaxFreeCalls
    /\ \E result \in {0, 1} : \E intensity \in IntensityArgs :
          StairHandler_addResponse("addResponse", result, intensity)

FreeAddData ==
    /\ sObs.calls < MaxFreeCalls
    /\ \E result \in {0, 1} : \E intensity \in IntensityArgs :
          StairHandler_addResponse("addData", result, intensity)

FreeOtherData ==
    /\ sObs.calls < MaxFreeCalls
    /\ StairHandler_addOtherData

NextStairFree == FreeNext \/ FreeResponse \/ FreeAddData \/ FreeOtherData

SpecStairFree == InitStair /\ [][NextStairFree]_vars

(***************************************************************************)
(* Runs with prescribed responses: every next() is answered by the next    *)
(* response of one of two fixed response lists.  Intensities of the second *)
(* list's handler are counted in steps of 0.1 (startVal 0.5 is 5, the step *)
(* 0.1 is 1).                                                              *)
(***************************************************************************)
Responses6 == <<1, 1, 1, 0, 0, 0>>
Responses10 == <<1, 1, 1, 0, 1, 1, 1, 0, 1, 1>>

ResponseLists == {Responses6, Responses10}

IsPrefix(p, q) == Len(p) <= Len(q) /\ SubSeq(q, 1, Len(p)) = p

ListedConfigs ==
    [ startVal : {0, 5},
      nUp : {1},
      nDown : {1, 3},
      stepSizes : {<<1>>, <<2, 1>>, <<3, 2, 1>>},
      nReversals : {PyNone, 3},
      nTrials : {0, 6, 10},
      minVal : {PyNone},
      maxVal : {PyNone, 5},
      stepType : {"lin"} ]

InitListed ==
    /\ \E c \in ListedConfigs :
          /\ stair = StairHandlerInit(c)
          /\ sObs = [SObsInit EXCEPT !.nReversalsArg = c.nReversals]
    /\ trials = Absent
    /\ thObs = Absent
    /\ multi = Absent
    /\ mObs = Absent
    /\ exp = Absent
    /\ eObs = Absent

ListedNext ==
    /\ ~sObs.awaiting
    /\ sObs.stops < MaxExtraCalls
    /\ \E l \in ResponseLists : IsPrefix(stair.data, l) /\ stair.data # l
    /\ StairHandler_next

ListedResponse ==
    /\ sObs.awaiting
    /\ \E result \in {0, 1} :
          /\ \E l \in ResponseLists : IsPrefix(Append(stair.data, result), l)
          /\ StairHandler_addResponse("addResponse", result, PyNone)

NextListed == ListedNext \/ ListedResponse

SpecStairListed == InitListed /\ [][NextListed]_vars


(***************************************************************************)
(* QuestHandler, a StairHandler whose next intensity comes from the        *)
(* posterior of a QuestObject.  The QuestObject is kept as the values its  *)
(* estimators return: mean(), mode(), quantile() and the distance between  *)
(* quantile(0.05) and quantile(0.95); update(intensity, result) may leave  *)
(* any of the posteriors of Posteriors.                                    *)
(***************************************************************************)
Posteriors == [mean : {2}, mode : {0}, quantile : {-2, 2}, width : 0..2]

\* the posterior built by QuestObject(startVal, startValSd, ...)
Prior == [mean |-> 0, mode |-> 0, quantile |-> 0, width |-> 2]

QuestMethods == {"mean", "mode", "quantile"}

QuestConfigs ==
    [ startVal : {0},
      nTrials : {PyNone, 0, 2},
      stopInterval : {PyNone, 1, 2},
      method : QuestMethods,
      minVal : {PyNone, -1},
      maxVal : {PyNone, 1} ]

\* QuestHandler.__init__
QuestHandlerInit(c) ==
    [cls |-> "QuestHandler",
     method |-> c.method,
     stopInterval |-> c.stopInterval,
     _questNextIntensity |-> c.startVal,
     _quest |-> Prior]
    @@ StairHandlerInit([startVal |-> c.startVal, nUp |-> 1, nDown |-> 3,
                         stepSizes |-> <<4>>, nReversals |-> PyNone,
                         nTrials |-> c.nTrials, minVal |-> c.minVal,
                         maxVal |-> c.maxVal, stepType |-> "lin"])

\* QuestHandler.confInterval(True)
confInterval(s) == s._quest.width

\* the end test with the two limits required together
QuestHandler_checkFinished_both(s) ==
    IF (s.nTrials # PyNone /\ Len(s.intensities) >= s.nTrials)
       /\ (s.stopInterval # PyNone /\ confInterval(s) < s.stopInterval)
    THEN [s EXCEPT !.finished = TRUE]
    ELSE [s EXCEPT !.finished = FALSE]

\* QuestHandler._checkFinished
QuestHandler_checkFinished(s) ==
    IF s.nTrials # PyNone /\ Len(s.intensities) >= s.nTrials
    THEN [s EXCEPT !.finished = TRUE]
    ELSE IF s.stopInterval # PyNone /\ confInterval(s) < s.stopInterval
    THEN [s EXCEPT !.finished = TRUE]
    ELSE [s EXCEPT !.finished = FALSE]

\* QuestHandler._intensity
QuestHandler_intensity(s) ==
    LET q == IF s.method = "mean" THEN s._quest.mean
             ELSE IF s.method = "mode" THEN s._quest.mode
             ELSE IF s.method = "quantile" THEN s._quest.quantile
             ELSE s._questNextIntensity
    IN  [s EXCEPT !._questNextIntensity = q, !._nextIntensity = q]

\* QuestHandler.calculateNextIntensity
QuestHandler_calculateNextIntensity(s) ==
    LET s1 == QuestHandler_intensity(s)
        n == IF s1._nextIntensity > s1.maxVal /\ s1.maxVal # PyNone
             THEN s1.maxVal
             ELSE IF s1._nextIntensity < s1.minVal /\ s1.minVal # PyNone
             THEN s1.minVal
             ELSE s1._nextIntensity
    IN  [s1 EXCEPT !._nextIntensity = n, !._questNextIntensity = n]

\* QuestHandler.addResponse(result, intensity); posterior is what
\* _quest.update(intensity, result) leaves
QuestHandler_addResponseState(s, result, intensity, posterior) ==
    LET s1 == IF intensity = PyNone THEN s
              ELSE IF Len(s.intensities) # 0
              THEN [s EXCEPT !.intensities[Len(s.intensities)] = intensity]
              ELSE [s EXCEPT !.intensities = Append(@, intensity)]
        s2 == [s1 EXCEPT !._quest = posterior, !.data = Append(@, result)]
        s3 == QuestHandler_checkFinished(s2)
    IN  IF ~s3.finished THEN QuestHandler_calculateNextIntensity(s3) ELSE s3

\* QuestHandler.next
QuestHandler_nextState(s) ==
    IF s.finished = FALSE
    THEN [s |-> [s EXCEPT !.thisTrialN = @ + 1,
                          !.intensities = Append(@, s._nextIntensity)],
          result |-> Value(s._nextIntensity)]
    ELSE [s |-> s, result |-> StopIteration]

InitQuest ==
    /\ \E c \in QuestConfigs : stair = QuestHandlerInit(c)
    /\ sObs = SObsInit
    /\ trials = Absent
    /\ thObs = Absent
    /\ multi = Absent
    /\ mObs = Absent
    /\ exp = Absent
    /\ eObs = Absent

QuestHandler_next ==
    /\ ~sObs.awaiting
    /\ Len(stair.data) < MaxQuestTrials \/ stair.finished
    /\ sObs.stops < MaxExtraCalls
    /\ LET out == QuestHandler_nextState(stair)
       IN  /\ stair' = out.s
           /\ sObs' = [sObs EXCEPT !.op = "next", !.result = out.result,
                          !.awaiting = (out.result.kind = "value"),
                          !.calls = @ + 1,
                          !.stops = IF out.result = StopIteration
                                    THEN @ + 1 ELSE @]
    /\ UNCHANGED <<trialVars, multiVars, expVars>>

QuestHandler_addResponse ==
    /\ sObs.awaiting
    /\ \E result \in {0, 1} : \E intensity \in IntensityArgs :
       \E posterior \in Posteriors :
          /\ intensity # PyNone => sObs.nOverride < MaxExtras
          /\ stair' = QuestHandler_addResponseState(stair, result, intensity,
                                                    posterior)
          /\ sObs' = [sObs EXCEPT !.op = "addResponse", !.result = NoneResult,
                         !.resp = result, !.intensity = intensity,
                         !.awaiting = FALSE, !.calls = @ + 1,
                         !.nOverride = IF intensity # PyNone THEN @ + 1 ELSE @]
    /\ UNCHANGED <<trialVars, multiVars, expVars>>

NextQuest == QuestHandler_next \/ QuestHandler_addResponse

SpecQuest == InitQuest /\ [][NextQuest]_vars


(***************************************************************************)
(* PsiHandler, a StairHandler whose intensities come from a PsiObject.     *)
(* The PsiObject is kept as its attribute nextIntensity, which update()    *)
(* may leave at any of PsiIntensities.                                     *)
(***************************************************************************)
PsiIntensities == {1, 2}

PsiConfigs == [ nTrials : {PyNone} \cup (0..MaxPsiTrials), intensRange : {<<0, 3>>} ]

\* PsiHandler.__init__: the handlers it may build
PsiHandlerInit(c) ==
    { [cls |-> "PsiHandler", _psi |-> [nextIntensity |-> x]]
      @@ StairHandlerInit([startVal |-> PyNone, nUp |-> 1, nDown |-> 3,
                           stepSizes |-> <<4>>, nReversals |-> PyNone,
                           nTrials |-> c.nTrials, minVal |-> c.intensRange[1],
                           maxVal |-> c.intensRange[2], stepType |-> "lin"])
      : x \in PsiIntensities }

\* _checkFinished that also ends the run one trial early
PsiHandler_checkFinished_early(s) ==
    IF s.nTrials # PyNone /\ Len(s.intensities) + 1 >= s.nTrials
    THEN [s EXCEPT !.finished = TRUE]
    ELSE [s EXCEPT !.finished = FALSE]

\* PsiHandler._checkFinished
PsiHandler_checkFinished(s) ==
    IF s.nTrials # PyNone /\ Len(s.intensities) >= s.nTrials
    THEN [s EXCEPT !.finished = TRUE]
    ELSE [s EXCEPT !.finished = FALSE]

\* PsiHandler.next
PsiHandler_nextState(s) ==
    LET s1 == PsiHandler_checkFinished(s)
    IN  IF s1.finished = FALSE
        THEN [s |-> [s1 EXCEPT !.thisTrialN = @ + 1,
                               !.intensities = Append(@, s._psi.nextIntensity)],
              result |-> Value(s._psi.nextIntensity)]
        ELSE [s |-> s1, result |-> StopIteration]

\* PsiHandler.addResponse(result, intensity), self._psi.update(result)
\* leaving nextIntensity at x
PsiHandler_addResponseState(s, result, intensity, x) ==
    LET s1 == [s EXCEPT !.data = Append(@, result)]
    IN  IF intensity # PyNone /\ s.intensities = <<>>
        THEN [s |-> s1, result |-> IndexError]
        ELSE [s |-> [s1 EXCEPT !.intensities =
                                  IF intensity # PyNone
                                  THEN [@ EXCEPT ![Len(@)] = intensity] ELSE @,
                               !._psi.nextIntensity = x],
              result |-> NoneResult]

InitPsi ==
    /\ \E c \in PsiConfigs : stair \in PsiHandlerInit(c)
    /\ sObs = SObsInit
    /\ trials = Absent
    /\ thObs = Absent
    /\ multi = Absent
    /\ mObs = Absent
    /\ exp = Absent
    /\ eObs = Absent

\* A run in which every next() is answered by one addResponse.
PsiHandler_next ==
    /\ stair.cls = "PsiHandler"
    /\ ~sObs.awaiting
    /\ Len(stair.data) <= MaxPsiTrials
    /\ sObs.stops < MaxExtraCalls
    /\ LET out == PsiHandler_nextState(stair)
       IN  /\ stair' = out.s
           /\ sObs' = [sObs EXCEPT !.op = "next", !.result = out.result,
                          !.awaiting = (out.result.kind = "value"),
                          !.calls = @ + 1,
                          !.stops = IF out.result = StopIteration
                                    THEN @ + 1 ELSE @]
           \* self._terminate()
           /\ exp' = IF out.result = StopIteration
                     THEN BaseTrialHandler_terminate(exp, "stair") ELSE exp
    /\ UNCHANGED <<eObs, trialVars, multiVars>>

PsiHandler_addResponse ==
    /\ stair.cls = "PsiHandler"
    /\ sObs.awaiting
    /\ \E result \in {0, 1} : \E intensity \in IntensityArgs :
       \E x \in PsiIntensities :
          /\ intensity # PyNone => sObs.nOverride < MaxExtras
          /\ LET out == PsiHandler_addResponseState(stair, result, intensity, x)
             IN  /\ stair' = out.s
                 /\ sObs' = [sObs EXCEPT !.op = "addResponse",
                                !.result = out.result,
                                !.resp = result, !.intensity = intensity,
                                !.awaiting = FALSE, !.calls = @ + 1,
                                !.nOverride = IF intensity # PyNone
                                              THEN @ + 1 ELSE @]
          /\ exp' = IF HasExp(exp, "stair")
                    THEN ExperimentHandler_addDataState(exp,
                             <<"stair", "response">>, result)
                    ELSE exp
    /\ UNCHANGED <<eObs, trialVars, multiVars>>

NextPsi == PsiHandler_next \/ PsiHandler_addResponse

SpecPsi == InitPsi /\ [][NextPsi]_vars

(***************************************************************************)
(* MultiStairHandler with stairType 'simple'.  The staircase objects are   *)
(* the entries of staircases; runningStaircases, thisPassRemaining and     *)
(* currentStaircase refer to them by their position in that list, which is *)
(* also the position of the staircase's condition in conditions.           *)
(***************************************************************************)
ValueError == [kind |-> "ValueError", val |-> 0]

\* the entries of conditions; nTrials = PyNone is a condition without the
\* key 'nTrials'
Conditions ==
    { c \in [startVal : {0}, nTrials : {PyNone, 1}, nReversals : {PyNone, 1}] :
        c.nTrials = PyNone \/ c.nReversals = PyNone }

ConditionLists == UNION { [1..n -> Conditions] : n \in 1..MaxStaircases }

MultiConfigs ==
    [ method : {"random", "sequential"},
      conditions : ConditionLists,
      nTrials : {2} ]

\* numpy.random.shuffle: the list in any order
numpy_random_shuffle(list) ==
    LET n == Len(list)
        perms == {f \in [1..n -> 1..n] : \A i, j \in 1..n : f[i] = f[j] => i = j}
    IN  { [i \in 1..n |-> list[f[i]]] : f \in perms }

\* MultiStairHandler._createStairs: one StairHandler per condition
MultiStairHandler_createStairs(c) ==
    [ i \in 1..Len(c.conditions) |->
        LET args == c.conditions[i]
            nTrials == IF args.nTrials = PyNone THEN c.nTrials ELSE args.nTrials
        IN  StairHandlerInit([startVal |-> args.startVal, nUp |-> 1, nDown |-> 3,
                              stepSizes |-> <<4>>,
                              nReversals |-> args.nReversals,
                              nTrials |-> nTrials, minVal |-> PyNone,
                              maxVal |-> PyNone, stepType |-> "db"]) ]

\* a new pass that leaves out the first of several running staircases
MultiStairHandler_startNewPass_dropFirst(m) ==
    LET pass == IF Len(m.runningStaircases) > 1 THEN Tail(m.runningStaircases)
                ELSE m.runningStaircases
    IN  IF m.method = "random"
        THEN { [m EXCEPT !.thisPassRemaining = q] : q \in numpy_random_shuffle(pass) }
        ELSE { [m EXCEPT !.thisPassRemaining = pass] }

\* a new pass made of all the staircases, running or not
MultiStairHandler_startNewPass_all(m) ==
    LET pass == [i \in 1..Len(m.staircases) |-> i]
    IN  IF m.method = "random"
        THEN { [m EXCEPT !.thisPassRemaining = q] : q \in numpy_random_shuffle(pass) }
        ELSE { [m EXCEPT !.thisPassRemaining = pass] }

\* MultiStairHandler._startNewPass: the handlers it may leave
MultiStairHandler_startNewPass(m) ==
    LET pass == m.runningStaircases
    IN  IF m.method = "random"
        THEN { [m EXCEPT !.thisPassRemaining = q] : q \in numpy_random_shuffle(pass) }
        ELSE { [m EXCEPT !.thisPassRemaining = pass] }

\* MultiStairHandler.__init__: the handlers it may build
MultiStairHandlerInit(c) ==
    LET stairs == MultiStairHandler_createStairs(c)
        m0 == [ cls |-> "MultiStairHandler",
                method |-> c.method,
                conditions |-> c.conditions,
                nTrials |-> c.nTrials,
                finished |-> FALSE,
                totalTrials |-> 0,
                staircases |-> stairs,
                runningStaircases |-> [i \in 1..Len(stairs) |-> i],
                thisPassRemaining |-> <<>>,
                currentStaircase |-> 0,
                _nextIntensity |-> 0 ]
    IN  { [m EXCEPT !.currentStaircase = m.thisPassRemaining[1],
                    !._nextIntensity =
                        m.staircases[m.thisPassRemaining[1]]._nextIntensity]
          : m \in MultiStairHandler_startNewPass(m0) }

\* fetching that advances the first staircase of the pass but leaves
\* currentStaircase as it was
MultiStairHandler_fetch_staleCurrent(m) ==
    IF m.thisPassRemaining = <<>> THEN [m |-> m, result |-> IndexError]
    ELSE
    LET cur == Head(m.thisPassRemaining)
        m1 == [m EXCEPT !.thisPassRemaining = Tail(@)]
        out == StairHandler_nextState(m.staircases[cur])
    IN  IF out.result.kind # "value"
        THEN [m |-> m1, result |-> out.result]
        ELSE LET m2 == [m1 EXCEPT !._nextIntensity = out.result.val,
                                  !.staircases[cur] = out.s]
             IN  IF ~m2.finished
                 THEN [m |-> m2, result |-> Value(<<out.result.val, cur>>)]
                 ELSE [m |-> m2, result |-> StopIteration]

\* fetching that reads the first staircase of the pass without removing it
MultiStairHandler_fetch_noPop(m) ==
    IF m.thisPassRemaining = <<>> THEN [m |-> m, result |-> IndexError]
    ELSE
    LET cur == Head(m.thisPassRemaining)
        m1 == [m EXCEPT !.currentStaircase = cur]
        out == StairHandler_nextState(m.staircases[cur])
    IN  IF out.result.kind # "value"
        THEN [m |-> m1, result |-> out.result]
        ELSE LET m2 == [m1 EXCEPT !._nextIntensity = out.result.val,
                                  !.staircases[cur] = out.s]
             IN  IF ~m2.finished
                 THEN [m |-> m2, result |-> Value(<<out.result.val, cur>>)]
                 ELSE [m |-> m2, result |-> StopIteration]

\* MultiStairHandler.next after the pass is chosen: take the first staircase
\* of the pass and advance it
MultiStairHandler_fetch(m) ==
    IF m.thisPassRemaining = <<>> THEN [m |-> m, result |-> IndexError]
    ELSE
    LET cur == Head(m.thisPassRemaining)
        m1 == [m EXCEPT !.currentStaircase = cur,
                        !.thisPassRemaining = Tail(@)]
        out == StairHandler_nextState(m.staircases[cur])
    IN  IF out.result.kind # "value"
        THEN [m |-> m1, result |-> out.result]
        ELSE LET m2 == [m1 EXCEPT !._nextIntensity = out.result.val,
                                  !.staircases[cur] = out.s]
             IN  IF ~m2.finished
                 THEN [m |-> m2, result |-> Value(<<out.result.val, cur>>)]
                 ELSE [m |-> m2, result |-> StopIteration]

\* next() that starts a new pass on every call
MultiStairHandler_nextStates_passPerCall(m) ==
    IF m.runningStaircases # <<>>
    THEN { MultiStairHandler_fetch(m1) : m1 \in MultiStairHandler_startNewPass(m) }
    ELSE { [m |-> [m EXCEPT !.finished = TRUE], result |-> StopIteration] }

\* MultiStairHandler.next: the handlers and results it may leave
MultiStairHandler_nextStates(m) ==
    IF m.thisPassRemaining = <<>>
    THEN IF m.runningStaircases # <<>>
         THEN { MultiStairHandler_fetch(m1) : m1 \in MultiStairHandler_startNewPass(m) }
         ELSE { [m |-> [m EXCEPT !.finished = TRUE], result |-> StopIteration] }
    ELSE { MultiStairHandler_fetch(m) }

\* addResponse that counts the trial only while the staircase goes on
MultiStairHandler_addResponseState_skipLast(m, result, intensity) ==
    LET cur == m.currentStaircase
        out == addResponse(m.staircases[cur], result, intensity)
        m1 == [m EXCEPT !.staircases[cur] = out.s]
    IN  IF out.result.kind # "None" THEN [m |-> m1, result |-> out.result]
        ELSE IF out.s.finished
        THEN IF cur \in Range(m.runningStaircases)
             THEN [m |-> [m1 EXCEPT !.runningStaircases = ListRemove(@, cur)],
                   result |-> NoneResult]
             ELSE [m |-> m1, result |-> ValueError]
        ELSE [m |-> [m1 EXCEPT !.totalTrials = @ + 1], result |-> NoneResult]

\* MultiStairHandler.addResponse(result, intensity)
MultiStairHandler_addResponseState(m, result, intensity) ==
    LET cur == m.currentStaircase
        out == addResponse(m.staircases[cur], result, intensity)
        m1 == [m EXCEPT !.staircases[cur] = out.s]
    IN  IF out.result.kind # "None" THEN [m |-> m1, result |-> out.result]
        ELSE IF out.s.finished
        THEN IF cur \in Range(m.runningStaircases)
             THEN [m |-> [m1 EXCEPT !.runningStaircases = ListRemove(@, cur),
                                    !.totalTrials = @ + 1],
                   result |-> NoneResult]
             ELSE [m |-> m1, result |-> ValueError]
        ELSE [m |-> [m1 EXCEPT !.totalTrials = @ + 1], result |-> NoneResult]

\* MultiStairHandler.addOtherData(name, value)
MultiStairHandler_addOtherDataState(m, value) ==
    [m EXCEPT !.staircases[m.currentStaircase] = addOtherData(@, value)]

\* MultiStairHandler.next informing the experiment of the condition of the
\* staircase it returns
MultiStairHandler_informExp(e, name, m) ==
    LET s == m.staircases[m.currentStaircase]
        condition == m.conditions[m.currentStaircase]
        \* self.conditions.index(stair.condition)
        index == CHOOSE i \in 0..(Len(m.conditions) - 1) :
                    /\ m.conditions[i + 1] = condition
                    /\ \A j \in 0..(i - 1) : m.conditions[j + 1] # condition
        items == <<  << <<name, "startVal">>, condition.startVal >> >>
                 \o (IF condition.nTrials = PyNone THEN <<>>
                     ELSE <<  << <<name, "nTrials">>, condition.nTrials >> >>)
                 \o (IF condition.nReversals = PyNone THEN <<>>
                     ELSE <<  << <<name, "nReversals">>, condition.nReversals >> >>)
    IN  ExperimentHandler_addAll(e,
            items \o
            <<  << <<name, "thisIndex">>, index >>,
                << <<name, "thisRepN">>, s.thisTrialN + 1 >>,
                << <<name, "thisN">>, m.totalTrials >>,
                << <<name, "direction">>, s.currentDirection >>,
                << <<name, "stepSize">>, s.stepSizeCurrent >>,
                << <<name, "stepType">>, s.stepType >>,
                << <<name, "intensity">>, m._nextIntensity >> >>)

MObsInit ==
    [op |-> "init", result |-> NoneResult, awaiting |-> FALSE, stops |-> 0,
     responses |-> 0, extras |-> 0, returned |-> <<>>]

InitMulti ==
    /\ \E c \in MultiConfigs : multi \in MultiStairHandlerInit(c)
    /\ mObs = MObsInit
    /\ exp = Absent
    /\ eObs = Absent
    /\ trials = Absent
    /\ thObs = Absent
    /\ stair = Absent
    /\ sObs = Absent

\* A run in which every next() is answered by one addResponse.
MultiStairHandler_next ==
    /\ multi.cls = "MultiStairHandler"
    /\ ~mObs.awaiting
    /\ multi.totalTrials < MaxMultiTrials \/ multi.runningStaircases = <<>>
    /\ mObs.stops < MaxExtraCalls
    /\ \E out \in MultiStairHandler_nextStates(multi) :
          /\ multi' = out.m
          /\ exp' = IF out.result.kind = "value" /\ HasExp(exp, "multi")
                    THEN MultiStairHandler_informExp(exp, "multi", out.m)
                    ELSE exp
          /\ mObs' = [mObs EXCEPT !.op = "next", !.result = out.result,
                         !.awaiting = (out.result.kind = "value"),
                         !.stops = IF out.result.kind = "value" THEN @ ELSE @ + 1,
                         !.returned = IF out.result.kind = "value"
                                      THEN Append(@, out.result.val[2]) ELSE @]
    /\ UNCHANGED <<eObs, trialVars, stairVars>>

MultiStairHandler_addResponse ==
    /\ multi.cls = "MultiStairHandler"
    /\ mObs.awaiting
    /\ \E result \in {0, 1} : \E intensity \in IntensityArgs :
          /\ intensity # PyNone => mObs.extras < MaxExtras
          /\ LET out == MultiStairHandler_addResponseState(multi, result, intensity)
             IN  /\ multi' = out.m
                 /\ exp' = IF out.result.kind = "None" /\ HasExp(exp, "multi")
                           THEN ExperimentHandler_addDataState(
                                    exp, <<"multi", "response">>, result)
                           ELSE exp
                 /\ mObs' = [mObs EXCEPT !.op = "addResponse",
                                !.result = out.result,
                                !.awaiting = FALSE,
                                !.responses = @ + 1,
                                !.extras = IF intensity # PyNone THEN @ + 1 ELSE @]
    /\ UNCHANGED <<eObs, trialVars, stairVars>>

MultiStairHandler_addOtherData ==
    /\ mObs.awaiting
    /\ mObs.extras < MaxExtras
    /\ multi' = MultiStairHandler_addOtherDataState(multi, OtherValue)
    /\ mObs' = [mObs EXCEPT !.op = "addOtherData", !.result = NoneResult,
                   !.extras = @ + 1]
    /\ UNCHANGED <<trialVars, stairVars, expVars>>

NextMulti ==
    \/ MultiStairHandler_next
    \/ MultiStairHandler_addResponse
    \/ MultiStairHandler_addOtherData

SpecMulti == InitMulti /\ [][NextMulti]_vars


(***************************************************************************)
(* Construction of a MultiStairHandler from arguments that may be          *)
(* malformed.  An entry of conditions is described by whether it is a dict *)
(* and by which of the keys 'startVal', 'label', 'startValSd' it has.      *)
(***************************************************************************)
TypeError == [kind |-> "TypeError", val |-> 0]
AttributeError == [kind |-> "AttributeError", val |-> 0]
KeyError == [kind |-> "KeyError", val |-> 0]
Constructed == [kind |-> "constructed", val |-> 0]

StairTypes == {"simple", "quest", "QUEST", "staircase"}

Bundles ==
    { b \in [isDict : BOOLEAN, startVal : BOOLEAN, label : BOOLEAN,
             startValSd : BOOLEAN] :
        b.isDict \/ (~b.startVal /\ ~b.label /\ ~b.startValSd) }

\* conditions: None (the default, not iterable), or a list
NoConditions == [iterable |-> FALSE, list |-> <<>>]

ConditionArgs ==
    {NoConditions} \cup
    { [iterable |-> TRUE, list |-> l] :
        l \in UNION { [1..n -> Bundles] : n \in 0..MaxStaircases } }

\* MultiStairHandler._checkArguments: None, or the exception raised
MultiStairHandler_checkArguments(type, conditions) ==
    IF ~conditions.iterable THEN TypeError
    ELSE IF conditions.list = <<>> THEN IndexError
    ELSE LET c0 == conditions.list[1]
         IN  IF ~c0.isDict THEN TypeError
             ELSE IF type \notin {"simple", "quest", "QUEST"} THEN ValueError
             ELSE IF ~c0.startVal THEN AttributeError
             ELSE IF ~c0.label THEN AttributeError
             ELSE IF type \in {"QUEST", "quest"} /\ ~c0.startValSd
             THEN AttributeError
             ELSE NoneResult

\* MultiStairHandler._createStairs from entry i on: None, or the exception
\* raised by dict(condition) or by args.pop
RECURSIVE MultiStairHandler_createStairsFrom(_, _, _)
MultiStairHandler_createStairsFrom(type, conditions, i) ==
    IF i > Len(conditions.list) THEN NoneResult
    ELSE LET c == conditions.list[i]
         IN  IF ~c.isDict THEN TypeError
             ELSE IF type = "simple" /\ ~c.startVal THEN KeyError
             ELSE IF type \in {"QUEST", "quest"} /\ (~c.startVal \/ ~c.startValSd)
             THEN KeyError
             ELSE MultiStairHandler_createStairsFrom(type, conditions, i + 1)

\* MultiStairHandler.__init__: the exception raised, or Constructed
MultiStairHandler_construct(type, conditions) ==
    LET r == MultiStairHandler_checkArguments(type, conditions)
    IN  IF r # NoneResult THEN r
        ELSE LET r2 == MultiStairHandler_createStairsFrom(type, conditions, 1)
             IN  IF r2 # NoneResult THEN r2 ELSE Constructed

InitConstruct ==
    /\ \E type \in StairTypes : \E conditions \in ConditionArgs :
          mObs = [op |-> "init", type |-> type, conditions |-> conditions,
                  result |-> NoneResult]
    /\ multi = Absent
    /\ trials = Absent
    /\ thObs = Absent
    /\ stair = Absent
    /\ sObs = Absent
    /\ exp = Absent
    /\ eObs = Absent

MultiStairHandler_init ==
    /\ mObs.op = "init"
    /\ LET r == MultiStairHandler_construct(mObs.type, mObs.conditions)
       IN  /\ mObs' = [mObs EXCEPT !.op = "__init__", !.result = r]
           /\ multi' = IF r = Constructed
                       THEN [cls |-> "MultiStairHandler", type |-> mObs.type,
                             conditions |-> mObs.conditions]
                       ELSE Absent
    /\ UNCHANGED <<trialVars, stairVars, expVars>>

SpecMultiConstruct == InitConstruct /\ [][MultiStairHandler_init]_vars


(***************************************************************************)
(* DataHandler on its own: one key of a handler constructed with a         *)
(* dataShape and no dataTypes, written with explicit positions.  A value   *)
(* is its Python type and a number naming it: the numbers n themselves,    *)
(* the strings by a code, 0 for '--' and NumText + n for the text numpy    *)
(* prints for the number n.                                                *)
(***************************************************************************)
PyInt(n) == [type |-> "int", val |-> n]
PyFloat(n) == [type |-> "float", val |-> n]
PyStr(code) == [type |-> "str", val |-> code]

NumText == 100

\* an entry of a masked array whose mask is set
MaskedCell == [type |-> "masked", val |-> 0]
\* '--'
Placeholder == PyStr(0)

\* the values handed to add
DataValues == {PyInt(1), PyFloat(2), PyStr(1)}

DataShapes == {<<1, 1>>, <<MaxDataRows, 1>>}

\* positions handed to add: non-negative indices, in or out of dataShape
DataPositions == (0..MaxDataRows) \X (0..1)

NoArray == [p \in {} |-> MaskedCell]

\* DataHandler.__init__(dataShape=shape)
DataHandlerInit(shape) ==
    [ cls |-> "DataHandler",
      dataShape |-> shape,
      has |-> FALSE,
      arr |-> NoArray,
      isNumeric |-> TRUE,
      warned |-> FALSE ]

\* storing a value in an entry of a float array ('f') / of an object array
StoreFloat(value) == [type |-> "float32", val |-> value.val]

\* numpy.where(dat.mask, '--', dat).astype('O'): choosing between a string
\* and the entries of a float array gives an array of strings, in which an
\* unmasked entry is the text of its number
numpy_where_mask(dat) ==
    [p \in DOMAIN dat |->
        IF dat[p].type = "masked" THEN Placeholder
        ELSE PyStr(NumText + dat[p].val)]

\* DataHandler._convertToObjectArray
DataHandler_convertToObjectArray(d) ==
    [d EXCEPT !.arr = numpy_where_mask(d.arr), !.isNumeric = FALSE]

\* shape of an array
ArrayShape(arr) ==
    <<1 + CHOOSE r \in {p[1] : p \in DOMAIN arr} :
             \A p \in DOMAIN arr : p[1] <= r,
      1 + CHOOSE c \in {p[2] : p \in DOMAIN arr} :
             \A p \in DOMAIN arr : p[2] <= c>>

\* psychopy.tools.arraytools.extendArr: the array enlarged so that pos is
\* one of its entries, every earlier entry kept; the new entries are
\* missing ones
extendArr(arr, pos) ==
    LET shape == ArrayShape(arr)
        rows == IF pos[1] + 1 > shape[1] THEN pos[1] + 1 ELSE shape[1]
        cols == IF pos[2] + 1 > shape[2] THEN pos[2] + 1 ELSE shape[2]
        numeric == \A p \in DOMAIN arr : arr[p].type \in {"masked", "float32"}
    IN  [p \in (0..(rows - 1)) \X (0..(cols - 1)) |->
            IF p \in DOMAIN arr THEN arr[p]
            ELSE IF numeric THEN MaskedCell ELSE Placeholder]

\* DataHandler.add(thisType, value, position) with a position given: the
\* handler after the call and the outcome of the call
DataHandler_addState(d, value, position) ==
    LET \* if not thisType in self: self.addDataType(thisType)
        d1 == IF d.has THEN d
              ELSE [d EXCEPT !.has = TRUE,
                             !.arr = addDataType(d.dataShape[1], d.dataShape[2],
                                                 MaskedCell),
                             !.isNumeric = TRUE]
        inShape == position[1] < d1.dataShape[1] /\ position[2] < d1.dataShape[2]
        d2 == IF inShape THEN d1
              ELSE [d1 EXCEPT !.warned = TRUE,
                              !.arr = extendArr(d1.arr, position)]
        d3 == IF d2.isNumeric /\ value.type \notin {"float", "int"}
              THEN DataHandler_convertToObjectArray(d2)
              ELSE d2
    IN  IF position \notin DOMAIN d3.arr
        THEN [d |-> d3, result |-> IndexError]
        ELSE [d |-> [d3 EXCEPT !.arr[position] =
                        IF d3.isNumeric THEN StoreFloat(value) ELSE value],
              result |-> NoneResult]

\* The record of the calls: what was written where, how many writes fell
\* outside dataShape one after the other, how often the array was converted
DObsInit ==
    [op |-> "init", result |-> NoneResult, writes |-> 0,
     written |-> [p \in {} |-> MaskedCell],
     position |-> <<0, 0>>, value |-> MaskedCell,
     outOfShape |-> 0, converted |-> FALSE, conversions |-> 0]

InitData ==
    /\ \E shape \in DataShapes : trials = DataHandlerInit(shape)
    /\ thObs = DObsInit
    /\ stair = Absent
    /\ sObs = Absent
    /\ multi = Absent
    /\ mObs = Absent
    /\ exp = Absent
    /\ eObs = Absent

DataHandler_addCall ==
    /\ trials.cls = "DataHandler"
    /\ thObs.writes < MaxWrites
    /\ \E value \in DataValues : \E position \in DataPositions :
         LET r == DataHandler_addState(trials, value, position)
             conv == trials.isNumeric /\ ~r.d.isNumeric
             out == ~(position[1] < trials.dataShape[1]
                      /\ position[2] < trials.dataShape[2])
         IN  /\ trials' = r.d
             /\ thObs' = [thObs EXCEPT
                   !.op = "add",
                   !.result = r.result,
                   !.writes = @ + 1,
                   !.written = IF r.result = NoneResult
                               THEN [p \in DOMAIN @ \cup {position} |->
                                       IF p = position THEN value ELSE @[p]]
                               ELSE @,
                   !.position = position,
                   !.value = value,
                   !.outOfShape = IF out THEN @ + 1 ELSE 0,
                   !.converted = conv,
                   !.conversions = IF conv THEN @ + 1 ELSE @]
    /\ UNCHANGED <<stairVars, multiVars, expVars>>

SpecData == InitData /\ [][DataHandler_addCall]_vars


(***************************************************************************)
(* Two TrialHandlers constructed with seeds.  shuffleArray with a seed     *)
(* gives one arrangement, the same for the same array and seed; with       *)
(* seed=None it gives any arrangement.                                     *)
(***************************************************************************)
\* seed=None
NoSeed == [given |-> FALSE, val |-> 0]
Seed(n) == [given |-> TRUE, val |-> n]

SeedArgs == {NoSeed, Seed(0), Seed(1)}

\* the array turned by k places
Rotate(s, k) ==
    IF s = <<>> THEN s
    ELSE [i \in 1..Len(s) |-> s[((i - 1 + k) % Len(s)) + 1]]

\* psychopy.tools.arraytools.shuffleArray(arr, seed=seed)
shuffleArray_seed(s, seed) ==
    IF seed.given THEN {Rotate(s, seed.val)} ELSE shuffleArray(s)

\* _createSequence that hands no seed to shuffleArray
TrialHandler_createSequence_seed_unused(method, nConds, nReps, seed) ==
    LET indices == [k \in 1..nConds |-> k - 1]
        B == Len(indices)
        flat == [k \in 1..(B * nReps) |-> indices[((k - 1) \div nReps) + 1]]
    IN  CASE method = "random" ->
               { [t \in 0..(B - 1) |-> [r \in 0..(nReps - 1) |-> f[r][t + 1]]]
                 : f \in { g \in [0..(nReps - 1) -> shuffleArray(indices)] :
                             nReps > 0 =>
                               g[0] \in shuffleArray_seed(indices, NoSeed) } }
          [] method = "sequential" ->
               { [t \in 0..(B - 1) |-> [r \in 0..(nReps - 1) |-> indices[t + 1]]] }
          [] method = "fullRandom" ->
               { [t \in 0..(B - 1) |->
                    [r \in 0..(nReps - 1) |-> randomFlat[t * nReps + r + 1]]]
                 : randomFlat \in shuffleArray_seed(flat, NoSeed) }

\* TrialHandler._createSequence of a handler constructed with seed: the seed
\* goes to the shuffle of the first repetition only
TrialHandler_createSequence_seed(method, nConds, nReps, seed) ==
    LET indices == [k \in 1..nConds |-> k - 1]
        B == Len(indices)
        flat == [k \in 1..(B * nReps) |-> indices[((k - 1) \div nReps) + 1]]
    IN  CASE method = "random" ->
               { [t \in 0..(B - 1) |-> [r \in 0..(nReps - 1) |-> f[r][t + 1]]]
                 : f \in { g \in [0..(nReps - 1) -> shuffleArray(indices)] :
                             nReps > 0 =>
                               g[0] \in shuffleArray_seed(indices, seed) } }
          [] method = "sequential" ->
               { [t \in 0..(B - 1) |-> [r \in 0..(nReps - 1) |-> indices[t + 1]]] }
          [] method = "fullRandom" ->
               { [t \in 0..(B - 1) |->
                    [r \in 0..(nReps - 1) |-> randomFlat[t * nReps + r + 1]]]
                 : randomFlat \in shuffleArray_seed(flat, seed) }

SeededConfigs ==
    { c \in [method : Methods, nConds : 1..MaxConds, nReps : 0..MaxReps,
             seeds : {p \in SeedArgs \X SeedArgs : p[1].given}] :
        c.nReps * c.nConds <= MaxTotal }

PairObsInit == [first |-> ThObsInit, second |-> ThObsInit]

\* TrialHandler(trialList, nReps, method, seed=seeds[1]) and
\* TrialHandler(trialList, nReps, method, seed=seeds[2])
InitSeeded ==
    /\ \E c \in SeededConfigs :
         \E seq1 \in TrialHandler_createSequence_seed(c.method, c.nConds,
                                                      c.nReps, c.seeds[1]) :
         \E seq2 \in TrialHandler_createSequence_seed(c.method, c.nConds,
                                                      c.nReps, c.seeds[2]) :
            trials = [ cls |-> "TrialHandlers",
                       first |-> TrialHandlerInit("TrialHandler", c.method,
                                     c.nConds, <<>>, c.nReps, seq1)
                                 @@ [seed |-> c.seeds[1]],
                       second |-> TrialHandlerInit("TrialHandler", c.method,
                                      c.nConds, <<>>, c.nReps, seq2)
                                  @@ [seed |-> c.seeds[2]] ]
    /\ thObs = PairObsInit
    /\ stair = Absent
    /\ sObs = Absent
    /\ multi = Absent
    /\ mObs = Absent
    /\ exp = Absent
    /\ eObs = Absent

\* next() of one of the two handlers
TrialHandlers_next ==
    /\ trials.cls = "TrialHandlers"
    /\ \E which \in {"first", "second"} :
          /\ thObs[which].nextCalls < trials[which].nTotal + 1
          /\ LET out == TrialHandler_nextState(trials[which])
             IN  /\ trials' = [trials EXCEPT ![which] = out.t]
                 /\ thObs' = [thObs EXCEPT ![which] = ObserveNext(@, out.result)]
    /\ UNCHANGED <<stairVars, multiVars, expVars>>

SpecSeeded == InitSeeded /\ [][TrialHandlers_next]_vars


(***************************************************************************)
(* TrialHandler2.  thisTrial is the index of its condition; an entry of    *)
(* _data is the trial's dict with the values next() adds to it.            *)
(***************************************************************************)
\* TrialHandler2.__init__
TrialHandler2Init(method, nConds, nReps) ==
    [ cls |-> "TrialHandler2",
      method |-> method,
      nConds |-> nConds,
      nReps |-> nReps,
      nTotal |-> nReps * nConds,
      nRemaining |-> nReps * nConds,
      remainingIndices |-> <<>>,
      prevIndices |-> <<>>,
      thisRepN |-> 0,
      thisTrialN |-> -1,
      thisN |-> -1,
      thisIndex |-> PyNone,
      thisTrial |-> EmptyTrial,
      finished |-> FALSE,
      _data |-> <<>> ]

\* next() taking the repetition of a fullRandom trial from its place in the
\* run
TrialHandler2_nextStates_byPosition(t) ==
    LET t1 == [t EXCEPT !.thisTrialN = @ + 1,
                        !.thisN = @ + 1,
                        !.nRemaining = @ - 1,
                        !.prevIndices = IF t.thisIndex # PyNone
                                        THEN Append(@, t.thisIndex) ELSE @]
        \* range(len(self.trialList))
        sequence == [k \in 1..t.nConds |-> k - 1]
        \* sequence *= self.nReps
        repeated == [k \in 1..(t.nConds * t.nReps) |->
                        sequence[((k - 1) % t.nConds) + 1]]
        refilled ==
            IF t1.remainingIndices # <<>> THEN {t1}
            ELSE IF t1.method = "fullRandom" /\ t1.thisN < t1.nReps * t1.nConds
            THEN { [t1 EXCEPT !.remainingIndices = q]
                   : q \in numpy_random_shuffle(repeated) }
            ELSE IF t1.method \in {"sequential", "random"}
                    /\ t1.thisRepN < t1.nReps
            THEN { [t1 EXCEPT !.thisTrialN = 0,
                              !.thisRepN = @ + 1,
                              !.remainingIndices = q]
                   : q \in IF t1.method = "random"
                           THEN numpy_random_shuffle(sequence)
                           ELSE {sequence} }
            ELSE { [t1 EXCEPT !.finished = TRUE] }
    IN  { IF t2.remainingIndices = <<>>
          THEN [t |-> t2, result |-> StopIteration]
          ELSE LET idx == Head(t2.remainingIndices)
                   t3 == [t2 EXCEPT !.thisIndex = idx,
                                    !.remainingIndices = Tail(@),
                                    !.thisTrial = idx,
                                    !.thisRepN = IF t2.method = "fullRandom"
                                                 THEN t2.thisN \div t2.nConds
                                                 ELSE @]
               IN  [t |-> [t3 EXCEPT !._data =
                              Append(@, [cond |-> idx, thisN |-> t3.thisN,
                                         thisTrialN |-> t3.thisTrialN,
                                         thisRepN |-> t3.thisRepN])],
                    result |-> Value(idx)]
          : t2 \in refilled }

\* TrialHandler2.next: the handlers and results it may leave
TrialHandler2_nextStates(t) ==
    LET t1 == [t EXCEPT !.thisTrialN = @ + 1,
                        !.thisN = @ + 1,
                        !.nRemaining = @ - 1,
                        !.prevIndices = IF t.thisIndex # PyNone
                                        THEN Append(@, t.thisIndex) ELSE @]
        \* range(len(self.trialList))
        sequence == [k \in 1..t.nConds |-> k - 1]
        \* sequence *= self.nReps
        repeated == [k \in 1..(t.nConds * t.nReps) |->
                        sequence[((k - 1) % t.nConds) + 1]]
        refilled ==
            IF t1.remainingIndices # <<>> THEN {t1}
            ELSE IF t1.method = "fullRandom" /\ t1.thisN < t1.nReps * t1.nConds
            THEN { [t1 EXCEPT !.remainingIndices = q]
                   : q \in numpy_random_shuffle(repeated) }
            ELSE IF t1.method \in {"sequential", "random"}
                    /\ t1.thisRepN < t1.nReps
            THEN { [t1 EXCEPT !.thisTrialN = 0,
                              !.thisRepN = @ + 1,
                              !.remainingIndices = q]
                   : q \in IF t1.method = "random"
                           THEN numpy_random_shuffle(sequence)
                           ELSE {sequence} }
            ELSE { [t1 EXCEPT !.finished = TRUE] }
    IN  { IF t2.remainingIndices = <<>>
          THEN [t |-> t2, result |-> StopIteration]
          ELSE LET idx == Head(t2.remainingIndices)
                   t3 == [t2 EXCEPT !.thisIndex = idx,
                                    !.remainingIndices = Tail(@),
                                    !.thisTrial = idx,
                                    !.thisRepN = IF t2.method = "fullRandom"
                                                 THEN Count(t2.prevIndices, idx)
                                                 ELSE @]
               IN  [t |-> [t3 EXCEPT !._data =
                              Append(@, [cond |-> idx, thisN |-> t3.thisN,
                                         thisTrialN |-> t3.thisTrialN,
                                         thisRepN |-> t3.thisRepN])],
                    result |-> Value(idx)]
          : t2 \in refilled }

Configs2 ==
    { c \in [method : Methods, nConds : 1..MaxConds, nReps : 0..MaxReps] :
        c.nConds * c.nReps <= MaxTotal }

InitTrials2 ==
    /\ \E c \in Configs2 : trials = TrialHandler2Init(c.method, c.nConds, c.nReps)
    /\ thObs = ThObsInit
    /\ stair = Absent
    /\ sObs = Absent
    /\ multi = Absent
    /\ mObs = Absent
    /\ exp = Absent
    /\ eObs = Absent

TrialHandler2_next ==
    /\ trials.cls = "TrialHandler2"
    /\ CallsLeft
    /\ \E out \in TrialHandler2_nextStates(trials) :
          /\ trials' = out.t
          /\ thObs' = ObserveNext(thObs, out.result)
          \* self._terminate()
          /\ exp' = IF out.result = StopIteration
                    THEN BaseTrialHandler_terminate(exp, "trials") ELSE exp
    /\ UNCHANGED <<eObs, stairVars, multiVars>>

SpecTrials2 == InitTrials2 /\ [][TrialHandler2_next]_vars


(***************************************************************************)
(* A TrialHandler and a TrialHandler2 of the same conditions, nReps and    *)
(* method, each call of next() made on both.                               *)
(***************************************************************************)
\* TrialHandler(trialList, nReps, method) and
\* TrialHandler2(trialList, nReps, method)
InitSideBySide ==
    /\ \E c \in Configs2 :
         \E seq \in TrialHandler_createSequence(c.method, c.nConds, c.nReps) :
            trials = [ cls |-> "SideBySide",
                       first |-> TrialHandlerInit("TrialHandler", c.method,
                                     c.nConds, <<>>, c.nReps, seq),
                       second |-> TrialHandler2Init(c.method, c.nConds,
                                                    c.nReps) ]
    /\ thObs = PairObsInit
    /\ stair = Absent
    /\ sObs = Absent
    /\ multi = Absent
    /\ mObs = Absent
    /\ exp = Absent
    /\ eObs = Absent

\* next() of the TrialHandler, then next() of the TrialHandler2; neither
\* handler belongs to an experiment
SideBySide_next ==
    /\ trials.cls = "SideBySide"
    /\ thObs.first.nextCalls < trials.first.nTotal + 1 + MaxExtraCalls
    /\ LET out1 == TrialHandler_nextState(trials.first)
       IN  \E out2 \in TrialHandler2_nextStates(trials.second) :
              /\ trials' = [trials EXCEPT !.first = out1.t, !.second = out2.t]
              /\ thObs' = [first |-> ObserveNext(thObs.first, out1.result),
                           second |-> ObserveNext(thObs.second, out2.result)]
    /\ UNCHANGED <<stairVars, multiVars, expVars>>

SpecSideBySide == InitSideBySide /\ [][SideBySide_next]_vars

(***************************************************************************)
(* The calls on an ExperimentHandler and their record.                     *)
(***************************************************************************)
\* the names and values given to addData
DataNames == {<<"", "rt">>, <<"", "participant">>}
EntryValues == {1, 2}

\* extraInfo: None (an empty dict) or a dict
ExtraInfos == {EmptyDict, [k \in {<<"", "participant">>} |-> 0]}

\* the handlers by name
Handlers == [trials |-> trials, multi |-> multi]

EObsInit == [op |-> "init", calls |-> <<>>]

CallRecord(op, name, value) == [op |-> op, name |-> name, value |-> value]

ExperimentHandler_addData ==
    /\ exp.cls = "ExperimentHandler"
    /\ Len(eObs.calls) < MaxExpCalls
    /\ \E name \in DataNames : \E value \in EntryValues :
          /\ exp' = ExperimentHandler_addDataState(exp, name, value)
          /\ eObs' = [op |-> "addData",
                      calls |-> Append(eObs.calls,
                                       CallRecord("addData", name, value))]
    /\ UNCHANGED <<trialVars, stairVars, multiVars>>

ExperimentHandler_nextEntry ==
    /\ exp.cls = "ExperimentHandler"
    /\ Len(eObs.calls) < MaxExpCalls
    /\ exp' = ExperimentHandler_nextEntryState(exp, Handlers)
    /\ eObs' = [op |-> "nextEntry",
                calls |-> Append(eObs.calls,
                                 CallRecord("nextEntry", <<"", "">>, 0))]
    /\ UNCHANGED <<trialVars, stairVars, multiVars>>

\* addLoop with a handler that has not been started
ExperimentHandler_addLoop ==
    /\ exp.cls = "ExperimentHandler"
    /\ Len(eObs.calls) < MaxExpCalls
    /\ \E loop \in {"trials", "multi"} :
          /\ Handlers[loop] # Absent
          /\ loop \notin Range(exp.loops)
          /\ loop = "trials" => thObs.nextCalls = 0
          /\ loop = "multi" => mObs.op = "init"
          /\ exp' = ExperimentHandler_addLoopState(exp, loop)
          /\ eObs' = [op |-> "addLoop",
                      calls |-> Append(eObs.calls,
                                       CallRecord("addLoop", <<loop, "">>, 0))]
    /\ UNCHANGED <<trialVars, stairVars, multiVars>>

\* An experiment without loops
InitExp ==
    /\ \E extraInfo \in ExtraInfos : exp = ExperimentHandlerInit(extraInfo)
    /\ eObs = EObsInit
    /\ trials = Absent
    /\ thObs = Absent
    /\ stair = Absent
    /\ sObs = Absent
    /\ multi = Absent
    /\ mObs = Absent

NextExp == ExperimentHandler_addData \/ ExperimentHandler_nextEntry

SpecExp == InitExp /\ [][NextExp]_vars

\* An experiment and one handler, a TrialHandler of one repetition or a
\* MultiStairHandler of one staircase of one trial
LoopTrialConfigs ==
    { c \in [cls : {"TrialHandler"}, method : Methods, nConds : 1..2,
             nReps : {1}, weights : {<<>>}] : TRUE }

LoopMultiConfigs ==
    [ method : {"sequential"},
      conditions : { <<c>> : c \in {d \in Conditions : d.nTrials = 1} },
      nTrials : {2} ]

InitExpLoops ==
    /\ exp = ExperimentHandlerInit(EmptyDict)
    /\ eObs = EObsInit
    /\ stair = Absent
    /\ sObs = Absent
    /\ \/ /\ \E c \in LoopTrialConfigs :
               \E seq \in TrialHandler_createSequence(c.method, c.nConds, c.nReps) :
                  trials = TrialHandlerInit(c.cls, c.method, c.nConds,
                                            c.weights, c.nReps, seq)
          /\ thObs = ThObsInit
          /\ multi = Absent
          /\ mObs = Absent
       \/ /\ \E c \in LoopMultiConfigs : multi \in MultiStairHandlerInit(c)
          /\ mObs = MObsInit
          /\ trials = Absent
          /\ thObs = Absent

NextExpLoops ==
    \/ ExperimentHandler_addLoop
    \/ ExperimentHandler_nextEntry
    \/ TrialHandler_next
    \/ MultiStairHandler_next
    \/ MultiStairHandler_addResponse

SpecExpLoops == InitExpLoops /\ [][NextExpLoops]_vars


(***************************************************************************)
(* Properties of StairHandler.                                             *)
(***************************************************************************)
\* C7: once a handler is constructed, every sequence of next, addResponse
\* (with or without an intensity), addOtherData and addData calls ends each
\* call with a value or with StopIteration; no other error is raised.
C7_OnlyValuesOrStopIteration ==
    sObs.result.kind \in {"value", "None", "StopIteration"}

\* the minimum number of reversals and of trials are both reached
ReversalsAndTrialsReached ==
    /\ stair.nReversals = PyNone \/ Len(stair.reversalPoints) >= stair.nReversals
    /\ Len(stair.intensities) >= stair.nTrials

\* C8: finished implies that the recorded reversals are >= the (possibly
\* raised) nReversals and the presented intensities are >= nTrials; finished
\* becomes true at the first addResponse after which both hold, and next()
\* returns intensities until then.
C8_FinishedIffBothMinimaReached ==
    /\ stair.finished => ReversalsAndTrialsReached
    /\ sObs.op = "addResponse" => (stair.finished <=> ReversalsAndTrialsReached)
    /\ sObs.op = "next" => (sObs.result.kind = "value" <=> ~stair.finished)
    /\ sObs.op = "next" /\ stair.finished => sObs.result = StopIteration

C8_Witness ==
    /\ stair.finished
    /\ sObs.op = "addResponse"
    /\ stair.nReversals = 3
    /\ stair.nTrials = 3
    /\ Len(stair.reversalPoints) = 3
    /\ Len(stair.intensities) = 4

\* the size of one step of the staircase, in the unit of the intensities
StepOf(s) ==
    IF s.stepType = "log" THEN DbPerDecade * s.stepSizeCurrent
    ELSE s.stepSizeCurrent

\* an addResponse call made while no reversal had been recorded
RespondsBeforeFirstReversal ==
    sObs'.op = "addResponse" /\ Len(stair.reversalPoints) = 0

\* C9 as stated: while no reversal has been recorded, and on the trial that
\* records the first one, every response moves the intensity by exactly one
\* step whatever nUp and nDown are: down after 1, up after 0.
C9_ExactlyOneStep ==
    [][RespondsBeforeFirstReversal =>
          stair'._nextIntensity =
              IF sObs'.resp = 1 THEN stair._nextIntensity - StepOf(stair')
              ELSE stair._nextIntensity + StepOf(stair')]_vars

Max(a, b) == IF a > b THEN a ELSE b

\* C9 amended: the move of one step is limited to minVal and maxVal when set.
C9_OneStepWithinLimits ==
    [][RespondsBeforeFirstReversal =>
          stair'._nextIntensity =
              IF sObs'.resp = 1
              THEN IF stair.minVal = PyNone
                   THEN stair._nextIntensity - StepOf(stair')
                   ELSE Max(stair.minVal, stair._nextIntensity - StepOf(stair'))
              ELSE IF stair.maxVal = PyNone
                   THEN stair._nextIntensity + StepOf(stair')
                   ELSE Min(stair.maxVal, stair._nextIntensity + StepOf(stair'))]_vars

C9_Witness ==
    /\ stair.nUp = 2
    /\ stair.nDown = 2
    /\ stair.stepType = "lin"
    /\ stair.stepSizes = <<2, 1>>
    /\ stair.minVal = -1
    /\ stair.data = <<1, 1, 0>>
    /\ stair.reversalPoints = <<2>>
    /\ stair.intensities = <<0, -1, -1>>
    /\ stair._nextIntensity = 0

\* number of trailing entries of q equal to v
RECURSIVE TrailingRun(_, _)
TrailingRun(q, v) ==
    IF q = <<>> \/ Last(q) # v THEN 0
    ELSE 1 + TrailingRun(SubSeq(q, 1, Len(q) - 1), v)

LinearOneUpOneDownRun ==
    /\ stair.stepType = "lin"
    /\ stair.minVal = PyNone
    /\ stair.maxVal = PyNone
    /\ stair.nUp = 1
    /\ stair.nDown = 1
    /\ stair.data = Responses6

\* C11 as stated: a linear handler without limits, nUp = 1 and nDown = 1,
\* given the responses 1,1,1,0,0,0 has recorded exactly two reversals.
C11_TwoReversals ==
    LinearOneUpOneDownRun => Len(stair.reversalPoints) = 2

\* C11 amended: that run records exactly one reversal, on the fourth trial
\* (the first 0), while no reversal had been recorded before, that is under
\* the implicit 1-up/1-down rule.
C11_OneReversal ==
    LinearOneUpOneDownRun =>
        /\ stair.reversalPoints = <<3>>
        /\ stair.reversalIntensities = <<stair.intensities[4]>>
        /\ stair.currentDirection = "up"

C11_Witness ==
    /\ LinearOneUpOneDownRun
    /\ stair.startVal = 0
    /\ stair.stepSizes = <<1>>
    /\ stair.nReversals = 3
    /\ stair.intensities = <<0, -1, -2, -3, -2, -1>>
    /\ stair._nextIntensity = 0
    /\ ~stair.finished

\* StairHandler(startVal=0.5, nUp=1, nDown=3, stepSizes=0.1, stepType='lin',
\* nTrials=10, nReversals=3) after the responses 1,1,1,0,1,1,1,0,1,1
OneUpThreeDownRun ==
    /\ stair.startVal = 5
    /\ stair.nUp = 1
    /\ stair.nDown = 3
    /\ stair.stepSizes = <<1>>
    /\ stair.stepType = "lin"
    /\ stair.nTrials = 10
    /\ stair.nReversals = 3
    /\ stair.minVal = PyNone
    /\ stair.maxVal = PyNone
    /\ stair.data = Responses10

\* the intensities of that run, in steps of 0.1
Trajectory10 == <<5, 4, 3, 2, 3, 3, 3, 2, 3, 3>>

\* the response of trial t (trials count from 0) completes n responses equal
\* to v in a row
CompletesRun(data, t, n, v) ==
    /\ t + 1 >= n
    /\ \A k \in (t + 2 - n)..(t + 1) : data[k] = v

\* C12 as stated: the run has one fixed trajectory, and every reversal after
\* the first (the one of the initial 1-up/1-down phase) is on a trial that
\* completes three consecutive correct responses.
C12_ReversalsOnlyAfterThreeCorrect ==
    OneUpThreeDownRun =>
        /\ stair.intensities = Trajectory10
        /\ \A i \in 2..Len(stair.reversalPoints) :
              CompletesRun(stair.data, stair.reversalPoints[i], 3, 1)

\* C12 amended: the run has one fixed trajectory with reversals on trials 3,
\* 6 and 7; after the first reversal a reversal to 'down' is on a trial that
\* completes three consecutive correct responses (nDown = 3) and a reversal
\* to 'up' is on a trial with one incorrect response (nUp = 1).
C12_FixedTrajectory ==
    OneUpThreeDownRun =>
        /\ stair.intensities = Trajectory10
        /\ stair.reversalPoints = <<3, 6, 7>>
        /\ stair.reversalIntensities = <<2, 3, 2>>
        /\ \A i \in 2..Len(stair.reversalPoints) :
              LET t == stair.reversalPoints[i]
              IN  IF stair.data[t + 1] = 1
                  THEN CompletesRun(stair.data, t, 3, 1)
                  ELSE CompletesRun(stair.data, t, 1, 0)

C12_Witness ==
    /\ OneUpThreeDownRun
    /\ stair.finished
    /\ stair.thisTrialN = 9
    /\ stair._nextIntensity = 3
    /\ sObs.op = "addResponse"

(***************************************************************************)
(* Reversals, step sizes and limits of StairHandler.                       *)
(***************************************************************************)
\* the direction changes between 'up' and 'down' in this step
DirectionTurns ==
    /\ stair.currentDirection \in {"up", "down"}
    /\ stair'.currentDirection # stair.currentDirection

C14_StepSizeFollowsReversals ==
    Len(stair.stepSizes) > 1 =>
        stair.stepSizeCurrent =
            stair.stepSizes[Min(Len(stair.reversalPoints),
                                Len(stair.stepSizes) - 1) + 1]

C14_Witness ==
    /\ stair.stepSizes = <<3, 2, 1>>
    /\ sObs.op = "addResponse"
    /\ Len(stair.reversalPoints) = 3
    /\ stair.stepSizeCurrent = 1
    /\ stair.stepType = "lin"
    /\ stair.minVal = PyNone
    /\ stair.maxVal = PyNone
    /\ stair.intensities = <<0, -3, -1, -2>>

\* nReversals was given and is smaller than the number of step sizes
FewerReversalsThanSteps ==
    /\ sObs.nReversalsArg # PyNone
    /\ sObs.nReversalsArg < Len(stair.stepSizes)

\* C15: a handler given m step sizes and an nReversals smaller than m has
\* nReversals = m; it is not finished before m reversals are recorded, and
\* when it is finished every step size was the current one on at least one
\* trial.
C15_MinReversalsRaisedToStepSizes ==
    FewerReversalsThanSteps =>
        /\ stair.nReversals = Len(stair.stepSizes)
        /\ stair.finished =>
              /\ Len(stair.reversalPoints) >= Len(stair.stepSizes)
              /\ \A i \in 1..Len(stair.stepSizes) :
                    \E k \in 1..Len(sObs.steps) :
                        sObs.steps[k] = stair.stepSizes[i]

C15_Witness ==
    /\ sObs.nReversalsArg = 1
    /\ stair.stepSizes = <<3, 2, 1>>
    /\ stair.nTrials = 0
    /\ stair.finished
    /\ sObs.op = "addResponse"
    /\ stair.reversalPoints = <<1, 2, 3>>
    /\ sObs.steps = <<3, 3, 2, 1>>

\* x is not below minVal and not above maxVal, where these are set
WithinLimits(x) ==
    /\ stair.minVal # PyNone => x >= stair.minVal
    /\ stair.maxVal # PyNone => x <= stair.maxVal

\* x, or the limit that x lies beyond
Limited(x) ==
    IF stair.maxVal # PyNone /\ x > stair.maxVal THEN stair.maxVal
    ELSE IF stair.minVal # PyNone /\ x < stair.minVal THEN stair.minVal
    ELSE x

\* the number of equal responses in a row that the response resp completes,
\* counted since the last step: positive for 1, negative for 0
RunWith(resp) ==
    LET onRun == stair.data # <<>> /\ Last(stair.data) = resp
    IN  IF resp = 1 THEN (IF onRun THEN stair.correctCounter + 1 ELSE 1)
        ELSE (IF onRun THEN stair.correctCounter - 1 ELSE -1)

\* the response resp makes the staircase step
StepsOn(resp) ==
    \/ Len(stair.reversalPoints) = 0
    \/ RunWith(resp) >= stair.nDown
    \/ RunWith(resp) <= 0 - stair.nUp

QuestLimitMet ==
    \/ stair.nTrials # PyNone /\ Len(stair.intensities) >= stair.nTrials
    \/ stair.stopInterval # PyNone /\ stair._quest.width < stair.stopInterval

\* C17: after every addResponse, finished holds exactly if nTrials is set and
\* the presented intensities are at least nTrials, or stopInterval is set and
\* the width of the 5%-95% interval is below it (so the first limit met
\* stops the handler); a finished handler stays finished and its next()
\* raises StopIteration.
C17_FinishedIffEitherLimitMet ==
    /\ [](sObs.op = "addResponse" => (stair.finished <=> QuestLimitMet))
    /\ [][stair.finished =>
              /\ stair'.finished
              /\ sObs'.op = "next"
              /\ sObs'.result = StopIteration]_vars
    /\ []((sObs.op = "next" /\ sObs.result = StopIteration) => stair.finished)

C17_Witness ==
    /\ stair.nTrials = 2
    /\ stair.stopInterval = 1
    /\ Len(stair.intensities) = 1
    /\ stair._quest.width = 0
    /\ stair.finished
    /\ sObs.op = "next"
    /\ sObs.result = StopIteration

(***************************************************************************)
(* Properties of MultiStairHandler.                                        *)
(***************************************************************************)
\* the responses recorded by all the staircases together
RECURSIVE RecordedResponses(_)
RecordedResponses(stairs) ==
    IF stairs = <<>> THEN 0
    ELSE Len(Head(stairs).data) + RecordedResponses(Tail(stairs))

\* C18: after k calls of addResponse, each following a next(), the responses
\* recorded by all staircases together are k and totalTrials is k.
C18_ResponsesAddUp ==
    /\ RecordedResponses(multi.staircases) = mObs.responses
    /\ multi.totalTrials = mObs.responses

C18_Witness ==
    /\ mObs.responses = 4
    /\ Len(multi.staircases) = 2
    /\ Len(multi.staircases[1].data) = 3
    /\ Len(multi.staircases[2].data) = 1
    /\ multi.staircases[2].finished

\* the staircases that have finished
FinishedStaircases(m) ==
    {i \in 1..Len(m.staircases) : m.staircases[i].finished}

\* C19: a staircase is in runningStaircases exactly while it is not finished
\* (it is removed by the response that finishes it), a finished staircase is
\* in no pass, and next() never returns one, while it goes on returning the
\* others.
C19_FinishedStaircaseNeverReturned ==
    /\ [](/\ Range(multi.runningStaircases) =
                (1..Len(multi.staircases)) \ FinishedStaircases(multi)
          /\ Range(multi.thisPassRemaining) \cap FinishedStaircases(multi) = {})
    /\ [][mObs'.op = "next" =>
              IF FinishedStaircases(multi) = 1..Len(multi.staircases)
              THEN mObs'.result.kind # "value"
              ELSE /\ mObs'.result.kind = "value"
                   /\ mObs'.result.val[2] \notin FinishedStaircases(multi)]_vars

C19_Witness ==
    /\ Len(multi.staircases) = 2
    /\ multi.staircases[2].finished
    /\ ~multi.staircases[1].finished
    /\ mObs.returned = <<1, 2, 1, 1>>
    /\ mObs.op = "next"

\* C20: next() raises StopIteration exactly when every staircase has
\* finished, and it then sets finished; otherwise it returns the intensity
\* and condition of an unfinished staircase, taken from the current pass or,
\* when that is used up, from a new pass made of runningStaircases.
C20_StopsIffAllFinished ==
    /\ [](multi.finished =>
              FinishedStaircases(multi) = 1..Len(multi.staircases))
    /\ [][mObs'.op = "next" =>
              LET allDone == FinishedStaircases(multi) = 1..Len(multi.staircases)
                  pass == IF multi.thisPassRemaining = <<>>
                          THEN multi.runningStaircases
                          ELSE multi.thisPassRemaining
              IN  /\ mObs'.result = StopIteration <=> allDone
                  /\ allDone => multi'.finished
                  /\ ~allDone =>
                        /\ mObs'.result.kind = "value"
                        /\ ~multi'.finished
                        /\ mObs'.result.val[1] =
                               multi.staircases[mObs'.result.val[2]]._nextIntensity
                        /\ Range(multi'.thisPassRemaining)
                               \cup {mObs'.result.val[2]} = Range(pass)
                        /\ Len(multi'.thisPassRemaining) = Len(pass) - 1]_vars

C20_Witness ==
    /\ multi.finished
    /\ mObs.op = "next"
    /\ mObs.result = StopIteration
    /\ Len(multi.staircases) = 2
    /\ mObs.returned = <<2, 1, 2>>
    /\ multi.method = "random"

\* C21: addResponse adds the response to the staircase that the most recent
\* next() returned, and leaves every other staircase exactly as it was.
C21_ResponseGoesToCurrentStaircase ==
    [][mObs'.op = "addResponse" =>
          LET cur == Last(mObs.returned)
          IN  /\ multi.currentStaircase = cur
              /\ Len(multi'.staircases[cur].data) =
                     Len(multi.staircases[cur].data) + 1
              /\ multi'.staircases[cur].intensities # <<>>
              /\ \A i \in 1..Len(multi.staircases) :
                     i # cur => multi'.staircases[i] = multi.staircases[i]]_vars

C21_Witness ==
    /\ mObs.op = "addResponse"
    /\ Len(multi.staircases) = 2
    /\ mObs.returned = <<2, 1, 1>>
    /\ Len(multi.staircases[1].data) = 2
    /\ Len(multi.staircases[2].data) = 1
    /\ ~multi.staircases[2].finished
    /\ multi.staircases[1].currentDirection = "up"
    /\ multi.staircases[2].currentDirection = "down"

\* C22: when next() returns the staircase that the two calls before it
\* returned too, that staircase is the only one running.
C22_NoThreeInARowUnlessAlone ==
    [][(/\ mObs'.op = "next"
        /\ mObs'.result.kind = "value"
        /\ Len(mObs.returned) >= 2
        /\ mObs.returned[Len(mObs.returned)] = mObs'.result.val[2]
        /\ mObs.returned[Len(mObs.returned) - 1] = mObs'.result.val[2])
       => Range(multi.runningStaircases) = {mObs'.result.val[2]}]_vars

C22_Witness ==
    /\ mObs.op = "next"
    /\ Len(multi.staircases) = 2
    /\ multi.method = "random"
    /\ mObs.returned = <<2, 1, 1, 1>>
    /\ multi.staircases[2].finished
    /\ multi.runningStaircases = <<1>>

\* the entry of conditions has every key its staircase type requires
HasRequiredKeys(type, b) ==
    /\ b.isDict
    /\ b.startVal
    /\ b.label
    /\ type \in {"QUEST", "quest"} => b.startValSd

\* C23: a MultiStairHandler is constructed only from a stairType among
\* 'simple', 'quest', 'QUEST' and a list of dicts each of which has
\* 'startVal', 'label' and, for QUEST staircases, 'startValSd'; every other
\* construction raises an error.
C23_MissingKeyRejected ==
    mObs.op = "__init__" =>
        (mObs.result = Constructed =>
            /\ mObs.type \in {"simple", "quest", "QUEST"}
            /\ mObs.conditions.iterable
            /\ \A i \in 1..Len(mObs.conditions.list) :
                  HasRequiredKeys(mObs.type, mObs.conditions.list[i]))

(***************************************************************************)
(* Properties of DataHandler.                                              *)
(***************************************************************************)
\* reading `read` gives back the value `written`: the same number, or the
\* same string
SameValue(read, written) ==
    /\ read.val = written.val
    /\ (read.type \in {"int", "float", "float32"})
          = (written.type \in {"int", "float", "float32"})

\* C24: the write that converts a key's array to an object array leaves
\* '--' in every entry never written and the written value in every entry
\* written before, and marks the key non-numeric; a key's array is converted
\* at most once.
C24_PromotionKeepsValues ==
    /\ thObs.conversions <= 1
    /\ (thObs.op = "add" /\ thObs.converted /\ thObs.result = NoneResult) =>
         /\ ~trials.isNumeric
         /\ \A p \in DOMAIN trials.arr :
              IF p \in DOMAIN thObs.written
              THEN SameValue(trials.arr[p], thObs.written[p])
              ELSE trials.arr[p] = Placeholder

\* C25: a call of add with a position outside dataShape does not raise,
\* leaves the value at that position, and leaves every entry written before
\* reading as it did before the call, however many such calls follow each
\* other.
C25_OutOfShapeWriteKeepsValues ==
    [][(thObs'.op = "add" /\ thObs'.outOfShape > 0) =>
         /\ thObs'.result = NoneResult
         /\ thObs'.position \in DOMAIN trials'.arr
         /\ SameValue(trials'.arr[thObs'.position], thObs'.value)
         /\ \A p \in DOMAIN thObs.written :
              p # thObs'.position =>
                  SameValue(trials'.arr[p], trials.arr[p])]_vars

(***************************************************************************)
(* Where the data of a trial are written.                                  *)
(***************************************************************************)
\* [thisIndex, number of earlier presentations of that condition], for the
\* trial returned last when earlier are the trials returned before it
TrialCell(thisIndex, earlier) == <<thisIndex, Count(earlier, thisIndex)>>

CellsOfShape == (0..(trials.nConds - 1)) \X (0..(trials.nReps - 1))

\* C26: next() writes 'ran' and 'order', and addData writes its key, at
\* [thisIndex, number of earlier presentations of that condition]; that
\* entry is inside the [N, nReps] shape, no array is enlarged, and the
\* entry of 'ran' had not been written by an earlier trial.  The trial of
\* addData is the one returned last, while the run has not ended.
C26_TrialDataOnOneCell ==
    [][/\ (thObs'.op = "next" /\ thObs'.result.kind = "value") =>
            LET c == TrialCell(trials'.thisIndex, thObs.returned)
            IN  /\ c \in CellsOfShape
                /\ trials.ran[c] = 0
                /\ trials'.ran = [trials.ran EXCEPT ![c] = 1]
                /\ trials'.order = [trials.order EXCEPT ![c] = trials'.thisN]
                /\ ~trials'.needBigger
       /\ (thObs'.op = "addData" /\ ~trials.finished) =>
            LET c == TrialCell(trials.thisIndex,
                               SubSeq(thObs.returned, 1, Len(thObs.returned) - 1))
            IN  /\ c \in CellsOfShape
                /\ trials.ran[c] = 1
                /\ trials.order[c] = trials.thisN
                /\ DOMAIN trials'.resp = CellsOfShape
                /\ trials'.resp[c] = thObs'.arg
                /\ \A p \in CellsOfShape \ {c} :
                     trials'.resp[p] = IF DOMAIN trials.resp = {} THEN Masked
                                       ELSE trials.resp[p]
                /\ ~trials'.needBigger]_vars

\* a run of two conditions and two repetitions is complete and its last
\* trial, a second presentation, has been given data
C26_Witness ==
    /\ trials.cls = "TrialHandler"
    /\ trials.nConds = 2 /\ trials.nReps = 2
    /\ Len(thObs.returned) = 4
    /\ thObs.op = "addData"
    /\ "resp" \in DOMAIN trials
    /\ Cardinality({p \in DOMAIN trials.resp : trials.resp[p] = 1}) = 4
    /\ trials.method = "fullRandom"
    /\ thObs.returned[1] = thObs.returned[2]

(***************************************************************************)
(* Properties of ExperimentHandler.                                        *)
(***************************************************************************)
\* the positions of the nextEntry calls among the calls
NextEntryCalls == {k \in 1..Len(eObs.calls) : eObs.calls[k].op = "nextEntry"}

\* the position of the i-th nextEntry call (0 for i = 0)
NthNextEntry(i) ==
    IF i = 0 THEN 0
    ELSE CHOOSE k \in NextEntryCalls :
            Cardinality({j \in NextEntryCalls : j <= k}) = i

\* the addData calls for name between the (i-1)-th and the i-th nextEntry
GivenBetween(i, name) ==
    {k \in (NthNextEntry(i - 1) + 1)..(NthNextEntry(i) - 1) :
        eObs.calls[k].op = "addData" /\ eObs.calls[k].name = name}

LastGiven(i, name) ==
    eObs.calls[CHOOSE k \in GivenBetween(i, name) :
                  \A j \in GivenBetween(i, name) : j <= k].value

LoopNames(loop) ==
    {loop} \X {"thisRepN", "thisTrialN", "thisN", "thisIndex"}

\* C28: when next() of a handler attached by addLoop raises StopIteration the
\* handler is not in loopsUnfinished afterwards; an entry appended while the
\* last next() of an attached handler has raised StopIteration has none of
\* the handler's loop attributes; loopsUnfinished is within loops.
C28_EndedLoopLeavesUnfinished ==
    [][/\ (HasExp(exp, "trials") /\ thObs'.nextCalls # thObs.nextCalls
           /\ thObs'.result = StopIteration)
          => "trials" \notin Range(exp'.loopsUnfinished)
       /\ (HasExp(exp, "multi") /\ mObs'.stops # mObs.stops
           /\ mObs'.result = StopIteration)
          => "multi" \notin Range(exp'.loopsUnfinished)
       /\ (HasExp(exp, "trials") /\ Len(exp'.entries) > Len(exp.entries)
           /\ thObs.result = StopIteration)
          => DOMAIN exp'.entries[Len(exp'.entries)] \cap LoopNames("trials") = {}
       /\ Range(exp'.loopsUnfinished) \subseteq Range(exp'.loops)]_vars

(***************************************************************************)
(* Properties of TrialHandler2.                                            *)
(***************************************************************************)
\* C29: with method 'fullRandom', after next() has returned a trial,
\* thisRepN is the number of earlier trials of the run with the same
\* condition index, at most nReps - 1, and it is the thisRepN stored with
\* the trial's data.
C29_RepNCountsEarlierPresentations ==
    (trials.method = "fullRandom" /\ thObs.op = "next"
     /\ thObs.result.kind = "value") =>
       LET n == Len(thObs.returned)
           earlier == SubSeq(thObs.returned, 1, n - 1)
       IN  /\ trials.thisRepN = Count(earlier, thObs.returned[n])
           /\ trials.thisRepN <= trials.nReps - 1
           /\ trials._data[n].thisRepN = trials.thisRepN

\* the second trial of a run of two conditions is the second presentation
\* of its condition
C29_Witness ==
    /\ trials.cls = "TrialHandler2"
    /\ trials.method = "fullRandom"
    /\ trials.nConds = 2
    /\ thObs.op = "next"
    /\ thObs.returned = <<1, 1>>
    /\ trials.thisRepN = 1

(***************************************************************************)
(* Seeded TrialHandlers.                                                   *)
(***************************************************************************)
\* C30: two handlers of method 'random' with the same conditions, the same
\* nReps and the same seed (not None) return the same conditions, trial by
\* trial, throughout the first repetition.
C30_SameSeedSameFirstRepetition ==
    (trials.first.method = "random" /\ trials.first.seed.given
     /\ trials.first.seed = trials.second.seed) =>
       \A i \in 1..trials.first.nConds :
          (i <= Len(thObs.first.returned) /\ i <= Len(thObs.second.returned))
             => thObs.first.returned[i] = thObs.second.returned[i]

\* both handlers of seed 1 have run two repetitions of two conditions, the
\* first in the order the seed gives, the second in different orders
C30_Witness ==
    /\ trials.cls = "TrialHandlers"
    /\ trials.first.method = "random"
    /\ trials.first.seed = Seed(1) /\ trials.second.seed = Seed(1)
    /\ trials.first.nConds = 2
    /\ Len(thObs.first.returned) = 4 /\ Len(thObs.second.returned) = 4
    /\ SubSeq(thObs.first.returned, 1, 2) = <<1, 0>>
    /\ SubSeq(thObs.second.returned, 1, 2) = <<1, 0>>
    /\ thObs.first.returned # thObs.second.returned


(***************************************************************************)
(* The cursor of TrialHandler and TrialHandlerExt.                         *)
(***************************************************************************)
\* a call of next() that returned a trial has just been made
NextReturnedTrial ==
    /\ thObs'.nextCalls = thObs.nextCalls + 1
    /\ thObs'.result.kind = "value"

\* C31 (state part): on a trial returned by next() 0 <= thisTrialN < B,
\* 0 <= thisRepN < nReps and thisN = thisRepN * B + thisTrialN, B being the
\* block length (the number of conditions, or the sum of the weights).
C31_CursorInsideBlock ==
    (thObs.op = "next" /\ thObs.result.kind = "value") =>
        LET B == BlockLen(trials)
        IN  /\ 0 <= trials.thisTrialN /\ trials.thisTrialN < B
            /\ 0 <= trials.thisRepN /\ trials.thisRepN < trials.nReps
            /\ trials.thisN = trials.thisRepN * B + trials.thisTrialN
            /\ trials.thisN = Len(thObs.returned) - 1

\* C31: the cursor of every returned trial lies inside its block, and a
\* call of next() that returns a trial resets thisTrialN to 0 and adds one
\* to thisRepN exactly when a whole block of B trials has been returned
\* since the last reset; otherwise it adds one to thisTrialN only.
C31_CursorAdvancesByBlocks ==
    /\ []C31_CursorInsideBlock
    /\ [][NextReturnedTrial =>
            LET B == BlockLen(trials)
                n == Len(thObs.returned)
            IN  IF n > 0 /\ n % B = 0
                THEN /\ trials'.thisTrialN = 0
                     /\ trials'.thisRepN = trials.thisRepN + 1
                ELSE /\ trials'.thisTrialN = trials.thisTrialN + 1
                     /\ trials'.thisRepN = trials.thisRepN]_vars

\* a weighted handler (weights 2 and 1, two repetitions) returns the first
\* trial of its second block
C31_Witness ==
    /\ trials.cls = "TrialHandlerExt"
    /\ trials.trialWeights = <<2, 1>>
    /\ trials.nReps = 2
    /\ thObs.op = "next"
    /\ Len(thObs.returned) = 4
    /\ trials.thisTrialN = 0
    /\ trials.thisRepN = 1
    /\ trials.thisN = 3


\* C32: in every state of a TrialHandler, also after next() has raised
\* StopIteration, nRemaining is the number of trials next() has still to
\* return (nTotal minus the trials returned so far), so that
\* 0 <= nRemaining <= nTotal.
C32_NRemainingCountsTrialsLeft ==
    trials.cls = "TrialHandler" =>
        /\ trials.nRemaining = trials.nTotal - Len(thObs.returned)
        /\ 0 <= trials.nRemaining
        /\ trials.nRemaining <= trials.nTotal


(***************************************************************************)
(* TrialHandler and TrialHandler2 side by side.                            *)
(***************************************************************************)
\* C33: a TrialHandler and a TrialHandler2 of the same conditions, the same
\* nReps and method 'sequential' agree after every call of next(): both
\* calls returned the same condition or both raised StopIteration, and both
\* handlers report the same thisN, thisTrialN and thisRepN.
C33_SequentialHandlersAgree ==
    trials.first.method = "sequential" =>
        /\ thObs.first.result = thObs.second.result
        /\ trials.first.thisN = trials.second.thisN
        /\ trials.first.thisTrialN = trials.second.thisTrialN
        /\ trials.first.thisRepN = trials.second.thisRepN


(***************************************************************************)
(* Data positions of a weighted TrialHandlerExt.                           *)
(***************************************************************************)
\* the position of a trial of condition thisIndex after the trials in
\* earlier: row = first row of the condition + p mod weight, column =
\* p div weight, p the earlier presentations of the condition
WeightedCell(thisIndex, earlier) ==
    LET p == Count(earlier, thisIndex)
        w == trials.trialWeights[thisIndex + 1]
    IN  <<WeightsBefore(trials.trialWeights, thisIndex) + (p % w), p \div w>>

WeightedShape ==
    (0..(SumSeq(trials.trialWeights) - 1)) \X (0..(trials.nReps - 1))

\* C34: in a weighted TrialHandlerExt next() writes 'ran' and 'order' of a
\* trial at the position getNextTrialPosInDataHandler() computes, which is
\* [first row of the condition + p mod weight, p div weight]; that position
\* is inside the [sum(weights), nReps] shape and was written by no earlier
\* trial; getCurrentTrialPosInDataHandler() after the 'ran' write is the
\* same position, and addData writes its key there and nowhere else.
C34_WeightedTrialOnItsOwnCell ==
    [][/\ (thObs'.op = "next" /\ thObs'.result.kind = "value") =>
            LET c == WeightedCell(trials'.thisIndex, thObs.returned)
            IN  /\ getNextTrialPosInDataHandler(
                      [trials' EXCEPT !.ran = trials.ran]) = c
                /\ c \in WeightedShape
                /\ trials.ran[c] = 0
                /\ trials'.ran = [trials.ran EXCEPT ![c] = 1]
                /\ getCurrentTrialPosInDataHandler(trials') = c
                /\ trials'.order = [trials.order EXCEPT ![c] = trials'.thisN]
                /\ ~trials'.needBigger
       /\ thObs'.op = "addData" =>
            LET c == WeightedCell(trials.thisIndex,
                                  SubSeq(thObs.returned, 1, Len(thObs.returned) - 1))
            IN  /\ c \in WeightedShape
                /\ trials.ran[c] = 1
                /\ trials.order[c] = Len(thObs.returned) - 1
                /\ DOMAIN trials'.resp = WeightedShape
                /\ trials'.resp[c] = thObs'.arg
                /\ \A p \in WeightedShape \ {c} :
                     trials'.resp[p] = IF DOMAIN trials.resp = {} THEN Masked
                                       ELSE trials.resp[p]
                /\ ~trials'.needBigger]_vars

\* a fullRandom run with weights 2 and 1 and two repetitions began with
\* three trials of the first condition; the third, in row 0 of column 1,
\* has been given data
C34_Witness ==
    /\ trials.cls = "TrialHandlerExt"
    /\ trials.trialWeights = <<2, 1>>
    /\ trials.nReps = 2
    /\ trials.method = "fullRandom"
    /\ thObs.returned = <<0, 0, 0>>
    /\ thObs.op = "addData"
    /\ "resp" \in DOMAIN trials
    /\ DOMAIN trials.resp = WeightedShape
    /\ trials.resp[<<0, 1>>] = 1
    /\ trials.order[<<0, 1>>] = 2


(***************************************************************************)
(* Passes of MultiStairHandler.                                            *)
(***************************************************************************)
\* the trials staircase i has run
StairTrials(i) == multi.staircases[i].thisTrialN + 1

\* C35: in a run where every next() is answered by one addResponse, the
\* staircases still waiting in the current pass are running and have all run
\* the same number of trials, every other running staircase has run exactly
\* one trial more than those, and so the trial counts of any two running
\* staircases differ by at most 1; a staircase has run as many trials as
\* next() has returned it.
C35_EachPassAdvancesEveryStaircaseOnce ==
    LET running == Range(multi.runningStaircases)
        waiting == Range(multi.thisPassRemaining)
    IN  /\ waiting \subseteq running
        /\ Len(multi.thisPassRemaining) = Cardinality(waiting)
        /\ \A i \in 1..Len(multi.staircases) :
              StairTrials(i) = Count(mObs.returned, i)
        /\ \A i, j \in waiting : StairTrials(i) = StairTrials(j)
        /\ \A i, j \in running \ waiting : StairTrials(i) = StairTrials(j)
        /\ \A i \in waiting : \A j \in running \ waiting :
              StairTrials(j) = StairTrials(i) + 1
        /\ \A i, j \in running : Abs(StairTrials(i) - StairTrials(j)) <= 1

\* two staircases of two trials each under method 'random': the second pass
\* began with the staircase that ended the first, and the other staircase,
\* one trial behind, is waiting
C35_Witness ==
    /\ multi.cls = "MultiStairHandler"
    /\ multi.method = "random"
    /\ mObs.returned = <<1, 2, 2>>
    /\ mObs.awaiting
    /\ multi.thisPassRemaining = <<1>>
    /\ multi.runningStaircases = <<1, 2>>
    /\ StairTrials(1) = 1 /\ StairTrials(2) = 2


(***************************************************************************)
(* Alignment of intensities and responses of a StairHandler.               *)
(***************************************************************************)
\* C36 (state part): in a run of alternating next() and addResponse, after
\* every addResponse len(intensities) = len(data) = thisTrialN + 1; between
\* a next() and its addResponse intensities is one longer than data.
C36_IntensitiesAligned ==
    /\ Len(stair.intensities) = stair.thisTrialN + 1
    /\ Len(stair.data) + (IF sObs.awaiting THEN 1 ELSE 0)
          = Len(stair.intensities)
    /\ sObs.op = "addResponse" =>
          /\ Len(stair.intensities) = Len(stair.data)
          /\ Len(stair.data) = stair.thisTrialN + 1

\* C36: intensities and data stay aligned; addResponse(result, intensity=x)
\* puts x in place of the last recorded intensity and leaves the length and
\* the earlier intensities alone; finished, once True, stays True, and every
\* next() made then raises StopIteration and changes neither intensities
\* nor thisTrialN.
C36_AlignedAndFinishedForGood ==
    /\ []C36_IntensitiesAligned
    /\ [][/\ (sObs'.op = "addResponse" /\ sObs'.calls = sObs.calls + 1
              /\ sObs'.intensity # PyNone) =>
                /\ Len(stair'.intensities) = Len(stair.intensities)
                /\ Last(stair'.intensities) = sObs'.intensity
                /\ \A k \in 1..(Len(stair.intensities) - 1) :
                      stair'.intensities[k] = stair.intensities[k]
          /\ stair.finished => stair'.finished
          /\ (stair.finished /\ sObs'.op = "next"
              /\ sObs'.calls = sObs.calls + 1) =>
                /\ sObs'.result = StopIteration
                /\ stair'.intensities = stair.intensities
                /\ stair'.thisTrialN = stair.thisTrialN]_vars

\* a staircase whose last intensity was replaced has finished and its next()
\* has raised StopIteration
C36_Witness ==
    /\ stair.cls = "StairHandler"
    /\ stair.finished
    /\ sObs.op = "next"
    /\ sObs.result = StopIteration
    /\ sObs.nOverride = 1
    /\ Len(stair.data) >= 2
    /\ Last(stair.intensities) = Override
    /\ Len(stair.intensities) = Len(stair.data)


(***************************************************************************)
(* Properties of PsiHandler.                                               *)
(***************************************************************************)
\* the calls of next() made so far
PsiNextCalls == Len(stair.intensities) + sObs.stops

\* C37 (state part): a PsiHandler of nTrials = T never presents more than T
\* intensities, and finished is True in exactly the states where T
\* intensities have been presented and next() has been called again.
C37_FinishedAfterTTrials ==
    stair.nTrials # PyNone =>
        /\ Len(stair.intensities) <= stair.nTrials
        /\ stair.finished <=>
              (Len(stair.intensities) = stair.nTrials /\ sObs.stops >= 1)

\* C37: in a run where every next() is answered by one addResponse, each of
\* the first T calls of next() returns the intensity of the PsiObject and
\* records it, and call T + 1 (and every later call) raises StopIteration;
\* finished is True exactly once T intensities have been presented and
\* next() was called again.
C37_TTrialsThenStop ==
    /\ []C37_FinishedAfterTTrials
    /\ [][(stair.nTrials # PyNone /\ sObs'.op = "next"
           /\ sObs'.calls = sObs.calls + 1) =>
             IF PsiNextCalls < stair.nTrials
             THEN /\ sObs'.result = Value(stair._psi.nextIntensity)
                  /\ stair'.intensities =
                        Append(stair.intensities, stair._psi.nextIntensity)
                  /\ ~stair'.finished
             ELSE /\ sObs'.result = StopIteration
                  /\ stair'.intensities = stair.intensities
                  /\ stair'.finished]_vars

\* two trials, the second with its intensity replaced, then StopIteration
\* on the third call of next()
C37_Witness ==
    /\ stair.cls = "PsiHandler"
    /\ stair.nTrials = 2
    /\ Len(stair.intensities) = 2
    /\ Len(stair.data) = 2
    /\ stair.intensities[2] = Override
    /\ sObs.op = "next"
    /\ sObs.result = StopIteration
    /\ sObs.calls = 5
    /\ stair.finished

====